---- MODULE Spec2Model ----
(***************************************************************************)
(* A model of the CSV ingestion and reconciliation pipeline of invoiceapp: *)
(* the tax decomposition engine (Formula A), the dialect normalizers, the  *)
(* reconciliation matcher and the accounting-row emitter.                  *)
(*                                                                         *)
(* Conventions.                                                            *)
(*  - A JavaScript string is a sequence of one-character strings.          *)
(*  - A JavaScript number is an exact decimal [nan, m, e] standing for     *)
(*    m / 10^e, or NaN.  Binary floating point noise below 10^-9 is not    *)
(*    modelled: arithmetic is exact.                                       *)
(*  - A date text is a record [y, m, d]; the unparsable text is BadDate    *)
(*    and the empty cell is NoDate.  The process time zone is UTC,         *)
(*    except in the calls of parseDate on a text, where it is an input.    *)
(*  - A file is read as its rows of cells.  In the rows of the parse calls *)
(*    a cell that is only tested for being empty is written as a string.   *)
(***************************************************************************)
EXTENDS Integers, Sequences, FiniteSets, TLC

VARIABLES
    \* tax engine
    brutto, taxes,
    \* one parse call of a dialect normalizer
    parser, targetMonth, ppc, rowCount, isFirstRow, fileRows, fates,
    validRows, invalidRows, summary,
    \* one export: convertToUnifiedReservations, then generateAccountingCSV
    bookingRows, airbnbRows, startBelegnr, useCommaDecimal, epc, unified,
    currentBelegnr, accountingRows, csvOut,
    \* one request to the paired upload (parse-dual-csv)
    bmdHeaderRow, bmdRows, reservationRows, mpc, bmdEntries, reservations,
    mergedData, response,
    \* one call of a function of the libraries
    call, result,
    \* the counters file and the calls of getNextInvoiceNumber
    build, env, today, counters, issued,
    \* the calls of the numbering functions that are under way at once
    inflight

taxVars == <<brutto, taxes>>
parseVars == <<parser, targetMonth, ppc, rowCount, isFirstRow, fileRows, fates,
               validRows, invalidRows, summary>>
emitVars == <<bookingRows, airbnbRows, startBelegnr, useCommaDecimal, epc,
              unified, currentBelegnr, accountingRows, csvOut>>
matchVars == <<bmdHeaderRow, bmdRows, reservationRows, mpc, bmdEntries,
               reservations, mergedData, response>>
libVars == <<call, result>>
storeVars == <<build, env, today, counters, issued, inflight>>
vars == <<taxVars, parseVars, emitVars, matchVars, libVars, storeVars>>

(***************************************************************************)
(* Bounds of the model.                                                    *)
(***************************************************************************)
MaxGrossCents == 12000
MaxGrossMilli == 3000
MaxRows == 2
MaxReservations == 3
MaxLedgerRows == 2
MaxReservationRows == 2
MaxCalls == 3
MaxFields == 3
MaxHeaders == 3

\* the calls of a numbering function that run at once
MaxInflight == 2

(***************************************************************************)
(* Numbers.                                                                *)
(***************************************************************************)
RECURSIVE Pow10(_)
Pow10(n) == IF n = 0 THEN 1 ELSE 10 * Pow10(n - 1)

NaN == [nan |-> TRUE, m |-> 0, e |-> 0]

RECURSIVE Num(_, _)
Num(m, e) ==
    IF e > 0 /\ m % 10 = 0 THEN Num(m \div 10, e - 1)
    ELSE [nan |-> FALSE, m |-> m, e |-> e]

Cents(c) == Num(c, 2)

Zero == Num(0, 0)

\* x > 0 and x <= 0 as JavaScript evaluates them (both false for NaN)
Gt0(x) == ~x.nan /\ x.m > 0
\* x || 0
OrZero(x) == IF x.nan \/ x.m = 0 THEN Zero ELSE x

Neg(x) == IF x.nan THEN NaN ELSE Num(-x.m, x.e)

\* Math.round(n / d) for d > 0: the nearest integer, a tie going up
MathRound(n, d) == (n \div d) + (IF 2 * (n % d) >= d THEN 1 ELSE 0)

\* Math.round(x * 100) / 100
Round2(x) == IF x.nan THEN NaN ELSE Cents(MathRound(100 * x.m, Pow10(x.e)))

(***************************************************************************)
(* Strings.                                                                *)
(***************************************************************************)
Digits == {"0", "1", "2", "3", "4", "5", "6", "7", "8", "9"}

DigitChars == <<"0", "1", "2", "3", "4", "5", "6", "7", "8", "9">>

UpperChars == <<"A", "B", "C", "D", "E", "F", "G", "H", "I", "J", "K", "L", "M",
                "N", "O", "P", "Q", "R", "S", "T", "U", "V", "W", "X", "Y", "Z">>

LowerChars == <<"a", "b", "c", "d", "e", "f", "g", "h", "i", "j", "k", "l", "m",
                "n", "o", "p", "q", "r", "s", "t", "u", "v", "w", "x", "y", "z">>

\* s.toLowerCase()
ToLowerCase(s) ==
    LET lower(c) == IF \E i \in 1..26 : UpperChars[i] = c
                    THEN LowerChars[CHOOSE i \in 1..26 : UpperChars[i] = c]
                    ELSE c
    IN [i \in 1..Len(s) |-> lower(s[i])]

WhiteSpace == {" ", "\t", "\r", "\n"}

RECURSIVE TrimStart(_)
TrimStart(s) ==
    IF s # <<>> /\ Head(s) \in WhiteSpace THEN TrimStart(Tail(s)) ELSE s

\* s.trim()
Trim(s) ==
    LET t == TrimStart(s)
        inked == {i \in 1..Len(t) : t[i] \notin WhiteSpace}
    IN IF inked = {} THEN <<>>
       ELSE SubSeq(t, 1, CHOOSE i \in inked : \A j \in inked : j <= i)

\* some character of sub occurs in s
IncludesSomeChar(s, sub) ==
    \E i \in 1..Len(s), j \in 1..Len(sub) : s[i] = sub[j]

\* s.includes(sub)
Includes(s, sub) ==
    \E i \in 0..(Len(s) - Len(sub)) : SubSeq(s, i + 1, i + Len(sub)) = sub

\* s.replace(/[set]/g, '')
RemoveChars(s, set) == LET keep(c) == c \notin set IN SelectSeq(s, keep)

\* s.replace(/[^set]/g, '')
KeepChars(s, set) == LET keep(c) == c \in set IN SelectSeq(s, keep)

\* s.replace(c, d) with a string pattern: the first occurrence only
ReplaceFirst(s, c, d) ==
    IF \E i \in 1..Len(s) : s[i] = c
    THEN LET k == CHOOSE i \in 1..Len(s) : s[i] = c /\ \A j \in 1..(i - 1) : s[j] # c
         IN [s EXCEPT ![k] = d]
    ELSE s

RECURSIVE DigitsEnd(_, _)
\* the index after the run of digits of s that starts at index i
DigitsEnd(s, i) ==
    IF i <= Len(s) /\ s[i] \in Digits THEN DigitsEnd(s, i + 1) ELSE i

RECURSIVE DigitsValue(_)
DigitsValue(ds) ==
    IF ds = <<>> THEN 0
    ELSE 10 * DigitsValue(SubSeq(ds, 1, Len(ds) - 1))
         + (CHOOSE i \in 1..10 : DigitChars[i] = ds[Len(ds)]) - 1

\* parseFloat(s): leading white space, a sign, digits, a point, digits; what
\* follows is ignored; NaN when there is no digit.  (No text of the model
\* holds an exponent or "Infinity".)
ParseFloat(s) ==
    LET t == TrimStart(s)
        signed == t # <<>> /\ t[1] \in {"-", "+"}
        i0 == IF signed THEN 2 ELSE 1
        i1 == DigitsEnd(t, i0)
        hasDot == i1 <= Len(t) /\ t[i1] = "."
        i2 == IF hasDot THEN DigitsEnd(t, i1 + 1) ELSE i1
        intDigits == SubSeq(t, i0, i1 - 1)
        fracDigits == IF hasDot THEN SubSeq(t, i1 + 1, i2 - 1) ELSE <<>>
        v == DigitsValue(intDigits \o fracDigits)
    IN IF intDigits = <<>> /\ fracDigits = <<>> THEN NaN
       ELSE Num(IF signed /\ t[1] = "-" THEN -v ELSE v, Len(fracDigits))

RECURSIVE IntToString(_)
\* n.toString() for an integer n >= 0
IntToString(n) ==
    IF n < 10 THEN <<DigitChars[n + 1]>>
    ELSE IntToString(n \div 10) \o <<DigitChars[(n % 10) + 1]>>

(***************************************************************************)
(* Dates.                                                                  *)
(***************************************************************************)
NoDate == [y |-> 0, m |-> 0, d |-> 0]

BadDate == [y |-> -1, m |-> 0, d |-> 0]

Date(y, m, d) == [y |-> y, m |-> m, d |-> d]

\* new Date(text).getTime(), in days since 1970-01-01
GetTime(dt) ==
    LET y == IF dt.m <= 2 THEN dt.y - 1 ELSE dt.y
        era == y \div 400
        yoe == y - era * 400
        mp == IF dt.m > 2 THEN dt.m - 3 ELSE dt.m + 9
        doy == (153 * mp + 2) \div 5 + dt.d - 1
        doe == yoe * 365 + yoe \div 4 - yoe \div 100 + doy
    IN era * 146097 + doe - 719468

\* date.toISOString().split('T')[0] of a day number
ToISODate(z0) ==
    LET z == z0 + 719468
        era == z \div 146097
        doe == z - era * 146097
        yoe == (doe - doe \div 1460 + doe \div 36524 - doe \div 146096) \div 365
        doy == doe - (365 * yoe + yoe \div 4 - yoe \div 100)
        mp == (5 * doy + 2) \div 153
        d == doy - (153 * mp + 2) \div 5 + 1
        m == IF mp < 10 THEN mp + 3 ELSE mp - 9
        y == yoe + era * 400 + (IF m <= 2 THEN 1 ELSE 0)
    IN Date(y, m, d)

\* isNaN(new Date(text).getTime())
InvalidDate(dt) == dt = NoDate \/ dt = BadDate

(***************************************************************************)
(* Cell texts of the files of the model.                                   *)
(***************************************************************************)
TypeReservation == <<"R", "e", "s", "e", "r", "v", "a", "t", "i", "o", "n">>

\* the header row of a Booking.com monthly payout export
PayoutHeader ==
    <<<<"T", "y", "p", "e">>,
      <<"R", "e", "f", "e", "r", "e", "n", "c", "e", " ", "n", "u", "m", "b",
          "e", "r">>,
      <<"C", "h", "e", "c", "k", "-", "i", "n">>,
      <<"C", "h", "e", "c", "k", "o", "u", "t">>,
      <<"G", "u", "e", "s", "t", " ", "n", "a", "m", "e">>,
      <<"R", "e", "s", "e", "r", "v", "a", "t", "i", "o", "n", " ", "s", "t",
          "a", "t", "u", "s">>,
      <<"C", "u", "r", "r", "e", "n", "c", "y">>,
      <<"P", "a", "y", "m", "e", "n", "t", " ", "s", "t", "a", "t", "u", "s">>,
      <<"A", "m", "o", "u", "n", "t">>>>

Amount110 == <<"1", "1", "0", ".", "0", "0">>

AmountZero == <<"0">>

\* the Amount cells: 110.00, -50, 0, n/a, €297.5
AmountTexts ==
    {Amount110, <<"-", "5", "0">>, AmountZero, <<"n", "/", "a">>,
     <<"€", "2", "9", "7", ".", "5">>}

July2 == Date(2025, 7, 2)

June30 == Date(2025, 6, 30)

August1 == Date(2025, 8, 1)

\* the data rows a payout export (or a generic Booking export with the same
\* header) may hold, cell by cell
BasePayoutRow ==
    [Type |-> TypeReservation, ref |-> "4001234567", checkin |-> June30,
     checkout |-> July2, guest |-> "Jane Doe", status |-> "ok",
     currency |-> "EUR", amount |-> Amount110]

PayoutFileRows ==
    {[BasePayoutRow EXCEPT !.Type = t, !.status = st, !.amount = a] :
        t \in {TypeReservation, <<"P", "a", "y", "o", "u", "t">>, <<>>},
        st \in {"ok", "cancelled_by_guest"},
        a \in AmountTexts}
    \cup {[BasePayoutRow EXCEPT !.checkout = c] : c \in {August1, NoDate, BadDate}}
    \cup {[BasePayoutRow EXCEPT !.ref = ""], [BasePayoutRow EXCEPT !.guest = ""],
          [BasePayoutRow EXCEPT !.checkin = NoDate]}

\* the data rows of a Booking.com reservation export with the columns
\* Property name, Booker name, Departure, Total payment
BaseBookingRow ==
    [propertyName |-> "Margot", bookerName |-> "Jane Doe", departure |-> July2,
     totalPayment |-> Amount110]

BookingFileRows ==
    {[BaseBookingRow EXCEPT !.bookerName = b, !.totalPayment = a] :
        b \in {"Jane Doe", ""}, a \in AmountTexts}
    \cup {[BaseBookingRow EXCEPT !.departure = c] : c \in {August1, NoDate, BadDate}}

\* the data rows of an Airbnb export with the columns Guest name, Start date,
\* End date, Listing, Earnings, Confirmation code
BaseAirbnbRow ==
    [guestName |-> "John Roe", startDate |-> June30, endDate |-> July2,
     listing |-> "Spacious Central Penthouse", earnings |-> Amount110,
     confirmationCode |-> "HMABCDEF12"]

BlankAirbnbRow ==
    [guestName |-> "", startDate |-> NoDate, endDate |-> NoDate, listing |-> "",
     earnings |-> <<>>, confirmationCode |-> ""]

AirbnbFileRows ==
    {[BaseAirbnbRow EXCEPT !.guestName = g, !.earnings = a] :
        g \in {"John Roe", ""}, a \in AmountTexts}
    \cup {[BaseAirbnbRow EXCEPT !.endDate = c] : c \in {August1, NoDate, BadDate}}
    \cup {BlankAirbnbRow}

(***************************************************************************)
(* Amount coercion, one per call site.                                     *)
(***************************************************************************)
\* lib/csv-parser.ts parseAmount
parseAmount(amountString) ==
    IF amountString = <<>> THEN Zero
    ELSE LET cleaned == Trim(RemoveChars(amountString, {"€", "$", "£", "¥", "₹", ","}))
             amount == ParseFloat(cleaned)
         IN IF amount.nan THEN Zero ELSE amount

\* lib/payout-csv-parser.ts parsePayoutAmount; Thrown stands for the Error
Thrown == [nan |-> TRUE, m |-> 1, e |-> 0]

parsePayoutAmount(amountString) ==
    IF amountString = <<>> THEN Zero
    ELSE LET cleaned == KeepChars(amountString, Digits \cup {".", "-"})
             amount == ParseFloat(cleaned)
         IN IF amount.nan THEN Thrown ELSE amount

\* parsePayoutCSV of the accounting converter: parseFloat(rowData['Amount'] || '0')
PayoutCellAmount(cell) ==
    LET value == Trim(RemoveChars(cell, {"\""}))
    IN ParseFloat(IF value = <<>> THEN <<"0">> ELSE value)

\* parseBookingCSV: the totalPayment cell
BookingCellAmount(cell) ==
    LET value0 == RemoveChars(Trim(cell), {"'", "\""})
        value1 == Trim(RemoveChars(value0, {"€", "$", "£"}))
        hasComma == \E i \in 1..Len(value1) : value1[i] = ","
        hasDot == \E i \in 1..Len(value1) : value1[i] = "."
        value2 == IF hasComma /\ ~hasDot THEN ReplaceFirst(value1, ",", ".")
                  ELSE IF hasComma /\ hasDot
                       THEN ReplaceFirst(RemoveChars(value1, {"."}), ",", ".")
                       ELSE value1
    IN OrZero(ParseFloat(value2))

\* parseAirbnbCSV: the earnings cell
AirbnbCellAmount(cell) ==
    LET cellValue == Trim(cell)
        numericValue == ReplaceFirst(KeepChars(cellValue, Digits \cup {".", ","}), ",", ".")
    IN OrZero(ParseFloat(numericValue))

(***************************************************************************)
(* Row handlers of the dialect normalizers.  Each gives what becomes of one *)
(* data row: outcome "valid" (out is the row appended to the valid rows),  *)
(* "invalid" (out is the errors of the invalidRows entry) or "dropped"     *)
(* (the handler returns or continues without recording the row); why names *)
(* the branch of the code that decided.                                    *)
(***************************************************************************)
Result(o, w, x) == [outcome |-> o, why |-> w, out |-> x]

\* lib/csv-parser.ts parseDate; BadDate stands for the thrown Error
parseDate(dateString) ==
    IF dateString = NoDate THEN NoDate
    ELSE IF InvalidDate(dateString) THEN BadDate
    ELSE ToISODate(GetTime(dateString))

\* the issues of CSVRowSchema.parse(transformed)
CSVRowSchemaIssues(t) ==
    (IF t.reservationId = "" THEN <<"Reservation ID is required">> ELSE <<>>)
    \o (IF t.checkInDate = NoDate THEN <<"Check-in date is required">> ELSE <<>>)
    \o (IF t.checkOutDate = NoDate THEN <<"Check-out date is required">> ELSE <<>>)
    \o (IF ~Gt0(t.amountPaidGross) THEN <<"Amount must be positive">> ELSE <<>>)

validateAndTransformRow(mappedRow) ==
    LET checkIn == parseDate(mappedRow.checkin)
        checkOut == parseDate(mappedRow.checkout)
        transformed ==
            [reservationId |-> mappedRow.ref,
             guestName |-> IF mappedRow.guest = "" THEN "Booking.com Guest"
                           ELSE mappedRow.guest,
             checkInDate |-> checkIn,
             checkOutDate |-> checkOut,
             amountPaidGross |-> IF mappedRow.amount = <<>> THEN Zero
                                 ELSE parseAmount(mappedRow.amount),
             currency |-> IF mappedRow.currency = "" THEN "EUR"
                          ELSE mappedRow.currency,
             nights |-> NaN]
    IN IF checkIn = BadDate \/ checkOut = BadDate
       THEN Result("invalid", "date", <<"Invalid date format">>)
       ELSE IF CSVRowSchemaIssues(transformed) # <<>>
       THEN Result("invalid", "schema", CSVRowSchemaIssues(transformed))
       ELSE Result("valid", "ok", transformed)

\* the first data row looks like the header row repeated
LooksLikeHeader(rawRow) ==
    LET firstValue == ToLowerCase(rawRow.Type)
    IN /\ firstValue # <<>>
       /\ \E i \in 1..Len(PayoutHeader) :
            Includes(ToLowerCase(PayoutHeader[i]), firstValue)


\* if (amount <= 0)
AmountSkip(amount) == ~amount.nan /\ amount.m <= 0

\* lib/csv-parser.ts parseCSV, the 'data' handler
parseCSV_data(rawRow, first) ==
    IF first /\ LooksLikeHeader(rawRow) THEN Result("dropped", "header", <<>>)
    ELSE IF rawRow.Type # <<>> /\ rawRow.Type # TypeReservation
    THEN Result("dropped", "type", <<>>)
    ELSE LET amount == parseAmount(IF rawRow.amount = <<>> THEN <<"0">>
                                   ELSE rawRow.amount)
         IN IF AmountSkip(amount)
            THEN Result("invalid", "amount",
                        <<"Skipped: Negative amount (likely refund/cancellation)">>)
            ELSE validateAndTransformRow(rawRow)

\* lib/payout-csv-parser.ts parsePayoutDate; BadDate stands for the thrown Error
parsePayoutDateStrict(dateString) ==
    IF dateString = NoDate THEN NoDate
    ELSE IF InvalidDate(dateString) THEN BadDate
    ELSE ToISODate(GetTime(dateString))

\* lib/payout-csv-parser.ts transformPayoutRowToCSVRow
transformPayoutRowToCSVRow(payoutRow) ==
    LET nights ==
            IF InvalidDate(payoutRow.checkin) \/ InvalidDate(payoutRow.checkout)
            THEN NaN
            ELSE LET diff == GetTime(payoutRow.checkout) - GetTime(payoutRow.checkin)
                 IN Num(IF diff > 1 THEN diff ELSE 1, 0)
    IN IF payoutRow.checkin = BadDate \/ payoutRow.checkout = BadDate
       THEN Result("invalid", "date", <<"Invalid date format">>)
       ELSE Result("valid", "ok",
                [reservationId |-> payoutRow.ref,
                 guestName |-> IF payoutRow.guest = "" THEN "Booking.com Guest"
                               ELSE payoutRow.guest,
                 checkInDate |-> parsePayoutDateStrict(payoutRow.checkin),
                 checkOutDate |-> parsePayoutDateStrict(payoutRow.checkout),
                 amountPaidGross |-> parsePayoutAmount(payoutRow.amount),
                 currency |-> IF payoutRow.currency = "" THEN "EUR"
                              ELSE payoutRow.currency,
                 nights |-> nights])

\* lib/payout-csv-parser.ts parsePayoutCSV, the 'data' handler
payoutLib_data(rawRow) ==
    IF rawRow.Type # TypeReservation THEN Result("dropped", "type", <<>>)
    ELSE IF rawRow.status # "ok"
    THEN Result("invalid", "status",
        <<"Skipped: Reservation status is not 'ok'">>)
    ELSE LET amount == parsePayoutAmount(rawRow.amount)
         IN IF amount = Thrown
            THEN Result("invalid", "parse", <<"Invalid amount format">>)
            ELSE IF AmountSkip(amount)
            THEN Result("invalid", "amount",
                    <<"Skipped: Negative or zero amount - likely refund/cancellation">>)
            ELSE transformPayoutRowToCSVRow(rawRow)

\* parsePayoutDate of the accounting converter: null (NoDate) when unparsable
parsePayoutDate(dateStr) ==
    IF InvalidDate(dateStr) THEN NoDate ELSE ToISODate(GetTime(dateStr))

\* parsePayoutCSV of the accounting converter, one turn of its row loop
payoutCSV_row(rowData, month) ==
    LET checkoutDate == parsePayoutDate(rowData.checkout)
        amount == PayoutCellAmount(rowData.amount)
    IN IF rowData.checkout = NoDate THEN Result("dropped", "date", <<>>)
       ELSE IF checkoutDate = NoDate THEN Result("dropped", "date", <<>>)
       ELSE IF month # 0 /\ checkoutDate.y * 100 + checkoutDate.m # month
       THEN Result("dropped", "month", <<>>)
       ELSE IF AmountSkip(amount) THEN Result("dropped", "amount", <<>>)
       ELSE Result("valid", "ok",
                [propertyName |-> <<"Property",
                                    IF rowData.ref = "" THEN "Unknown" ELSE rowData.ref>>,
                 bookerName |-> IF rowData.guest = "" THEN "Unknown Guest"
                                ELSE rowData.guest,
                 departure |-> checkoutDate,
                 totalPayment |-> amount,
                 location |-> "",
                 arrival |-> parsePayoutDate(rowData.checkin),
                 currency |-> IF rowData.currency = "" THEN "EUR" ELSE rowData.currency,
                 reservationNumber |-> rowData.ref])

\* the issues of BookingCSVRowSchema.parse(rowData)
BookingCSVRowSchemaIssues(r) ==
    (IF r.propertyName = "" THEN <<"Property name is required">> ELSE <<>>)
    \o (IF r.bookerName = "" THEN <<"Booker name is required">> ELSE <<>>)
    \o (IF r.departure = NoDate THEN <<"Departure date is required">> ELSE <<>>)
    \o (IF ~Gt0(r.totalPayment) THEN <<"Total payment must be positive">> ELSE <<>>)

\* parseBookingCSV, one turn of its row loop: a row that fails the schema is
\* logged with console.warn and left out
bookingCSV_row(row) ==
    LET rowData == [propertyName |-> row.propertyName,
                    bookerName |-> row.bookerName,
                    departure |-> row.departure,
                    totalPayment |-> BookingCellAmount(row.totalPayment),
                    location |-> "", arrival |-> NoDate, currency |-> "EUR",
                    reservationNumber |-> ""]
    IN IF BookingCSVRowSchemaIssues(rowData) # <<>>
       THEN Result("dropped",
                   IF ~Gt0(rowData.totalPayment) THEN "amount" ELSE "schema",
                       <<>>)
       ELSE Result("valid", "ok", rowData)

\* the issues of AirbnbCSVRowSchema.parse(rowData)
AirbnbCSVRowSchemaIssues(r) ==
    (IF r.guestName = "" THEN <<"Guest name is required">> ELSE <<>>)
    \o (IF r.startDate = NoDate THEN <<"Start date is required">> ELSE <<>>)
    \o (IF r.endDate = NoDate THEN <<"End date is required">> ELSE <<>>)
    \o (IF r.listing = "" THEN <<"Listing is required">> ELSE <<>>)
    \o (IF ~Gt0(r.earnings) THEN <<"Earnings must be positive">> ELSE <<>>)

\* parseAirbnbCSV, one turn of its row loop
airbnbCSV_row(row) ==
    LET rowData == [guestName |-> row.guestName,
                    startDate |-> row.startDate,
                    endDate |-> row.endDate,
                    listing |-> row.listing,
                    earnings |-> AirbnbCellAmount(row.earnings),
                    confirmationCode |-> row.confirmationCode,
                    status |-> "", contact |-> "",
                    adults |-> 0, children |-> 0, infants |-> 0, nights |-> 0]
    IN IF row = BlankAirbnbRow THEN Result("dropped", "blank", <<>>)
       ELSE IF AirbnbCSVRowSchemaIssues(rowData) # <<>>
       THEN Result("dropped",
                   IF ~Gt0(rowData.earnings) THEN "amount" ELSE "schema", <<>>)
       ELSE Result("valid", "ok", rowData)

(***************************************************************************)
(* Tax decomposition engine, Formula A.                                    *)
(***************************************************************************)
NoTaxes == [netto |-> NaN, vat |-> NaN, cityTax |-> NaN, brutto |-> NaN]

\* the reconciliation adjustment left out
AdjustedVatNoReconcile(vatRounded, difference) == vatRounded

\* Math.round((vatRounded + difference) * 100) / 100, in cents
AdjustedVat(vatRounded, difference) == vatRounded + difference

calculateAccountingTaxes(b) ==
    IF b.nan THEN [netto |-> NaN, vat |-> NaN, cityTax |-> NaN, brutto |-> b]
    ELSE
    LET S == Pow10(b.e)
        \* netto = brutto / 1.132, vat = netto * 0.10, cityTax = netto * 0.032;
        \* in cents, with 1.132 = 283/250: netto * 100 = 25000 m / (283 S)
        nettoRounded == MathRound(25000 * b.m, 283 * S)
        vatRounded == MathRound(2500 * b.m, 283 * S)
        cityTaxRounded == MathRound(800 * b.m, 283 * S)
        calculatedSum == nettoRounded + vatRounded + cityTaxRounded
        \* Math.round((brutto - calculatedSum) * 100) / 100, in cents
        difference == MathRound(100 * b.m - calculatedSum * S, S)
    IN [netto |-> Cents(nettoRounded),
        vat |-> Cents(AdjustedVat(vatRounded, difference)),
        cityTax |-> Cents(cityTaxRounded),
        brutto |-> b]

GrossAmounts ==
    {Num(c, 2) : c \in 1..MaxGrossCents} \cup {Num(k, 3) : k \in 1..MaxGrossMilli}

(***************************************************************************)
(* Accounting-row emitter: formatting, property codes.                     *)
(***************************************************************************)
\* String(n).padStart(2, '0') for 0 <= n
PadStart2(n) == IF n < 10 THEN <<"0">> \o IntToString(n) ELSE IntToString(n)

\* the value formatDate cannot produce: it threw
DateThrown == <<"!">>

\* new Date(dateStr), then year, month and day in YYYYMMDD
formatDate(dateStr) ==
    IF InvalidDate(dateStr) THEN DateThrown
    ELSE LET date == ToISODate(GetTime(dateStr))
         IN IntToString(date.y) \o PadStart2(date.m) \o PadStart2(date.d)

\* Number(num).toFixed(2) is the nearest number of cents, a tie going to the
\* larger magnitude, in the form [-]d+.dd
formatDecimal(num, useComma) ==
    IF num.nan THEN (IF useComma THEN <<"0", ",", "0", "0">>
                     ELSE <<"0", ".", "0", "0">>)
    ELSE LET mag == IF num.m < 0 THEN -num.m ELSE num.m
             n == MathRound(100 * mag, Pow10(num.e))
             formatted == (IF num.m < 0 THEN <<"-">> ELSE <<>>)
                          \o IntToString(n \div 100) \o <<".">>
                          \o PadStart2(n % 100)
         IN IF useComma THEN ReplaceFirst(formatted, ".", ",") ELSE formatted

\* the character U+2013, which a string of this module cannot hold
EnDash == "<U+2013>"

SourceBooking == <<"B", "o", "o", "k", "i", "n", "g", ".", "c", "o", "m">>

SourceAirBnB == <<"A", "i", "r", "B", "n", "B">>

airbnbMapping ==
    <<
      <<<<"2", " ", "B", "e", "d", "r", "o", "o", "m", " ", "+", " ", "B", "a",
          "l", "c", "o", "n", "y", ",", " ", "L", "e", "o", "p", "o", "l",
          "d">>,
        <<"L", "A", "S">>>>,
      <<<<"2", " ", "B", "e", "d", "r", "o", "o", "m", " ", "F", "l", "a", "t",
          " ", "w", "i", "t", "h", " ", "T", "e", "r", "r", "a", "c", "e", ",",
          " ", "C", "l", "o", "s", "e", " ", "t", "o", " ", "U", "1">>,
        <<"L", "A", "M", "M">>>>,
      <<<<"2", " ", "B", "e", "d", "r", "o", "o", "m", " ", "S", "u", "p", "e",
          "r", "i", "o", "r", " ", "A", "p", "t", " ", "+", " ", "B", "a", "l",
          "c", "o", "n", "y">>,
        <<"L", "A", "S">>>>,
      <<<<"5", " ", "S", "t", "a", "r", " ", "A", "p", "a", "r", "t", "m", "e",
          "n", "t", " ", EnDash, " ", "7", " ", "M", "i", "n", " ", "t", "o",
          " ", "C", "e", "n", "t", "e", "r">>,
        <<"L", "A", "S">>>>,
      <<<<"C", "e", "n", "t", "r", "a", "l", " ", "V", "i", "e", "n", "n", "a",
          " ", "S", "t", "a", "y", " ", "N", "e", "a", "r", " ", "M", "a", "i",
          "n", " ", "S", "t", "a", "t", "i", "o", "n">>,
        <<"L", "A", "S">>>>,
      <<<<"E", "l", "e", "g", "a", "n", "t", " ", "2", " ", "B", "e", "d", "r",
          "o", "o", "m", " ", "F", "l", "a", "t", ",", " ", "B", "r", "i", "g",
          "h", "t", " ", "&", " ", "P", "e", "a", "c", "e", "f", "u", "l">>,
        <<"L", "A", "M", "M">>>>,
      <<<<"G", "r", "a", "n", "d", " ", "V", "i", "e", "n", "n", "e", "s", "e",
          " ", "A", "p", "a", "r", "t", "m", "e", "n", "t", " ", "w", "i", "t",
          "h", " ", "B", "a", "l", "c", "o", "n", "y">>,
        <<"Z", "I", "M", "M">>>>,
      <<<<"L", "a", "r", "g", "e", " ", "A", "p", "a", "r", "t", "m", "e", "n",
          "t", " ", "w", "i", "t", "h", " ", "a", " ", "B", "a", "l", "c", "o",
          "n", "y", " ", EnDash, " ", "7", " ", "M", "i", "n", " ", "t", "o",
          " ", "C", "e", "n", "t", "e", "r">>,
        <<"L", "A", "S">>>>,
      <<<<"S", "p", "a", "c", "i", "o", "u", "s", " ", "C", "e", "n", "t", "r",
          "a", "l", " ", "P", "e", "n", "t", "h", "o", "u", "s", "e">>,
        <<"L", "A", "S">>>>,
      <<<<"S", "p", "a", "c", "i", "o", "u", "s", " ", "G", "e", "m", " ", "i",
          "n", " ", "V", "i", "e", "n", "n", "a", "'", "s", " ", "C", "e", "n",
          "t", "e", "r">>,
        <<"B", "E", "G", "A">>>>
    >>

propertyMapping ==
    <<
      <<<<"H", "o", "m", "e", " ", "S", "w", "e", "e", "t", " ", "H", "o", "m",
          "e", " ", "-", " ", "V", "i", "e", "n", "n", "a", " ", "C", "e", "n",
          "t", "r", "a", "l">>,
        <<"B", "E", "G", "A">>>>,
      <<<<"H", "o", "m", "e", " ", "S", "w", "e", "e", "t", " ", "H", "o", "m",
          "e", " ", "-", " ", "S", "t", "a", "t", "e", " ", "O", "p", "e", "r",
          "a">>,
        <<"W", "A", "F", "G">>>>,
      <<<<"H", "o", "m", "e", " ", "S", "w", "e", "e", "t", " ", "H", "o", "m",
          "e", " ", "-", " ", "L", "e", "o", "p", "o", "l", "d">>,
        <<"L", "A", "S">>>>,
      <<<<"H", "o", "m", "e", " ", "S", "w", "e", "e", "t", " ", "H", "o", "m",
          "e", " ", "-", " ", "S", "t", "e", "p", "h", "a", "n", "s", "d", "o",
          "m">>,
        <<"K", "R", "A">>>>,
      <<<<"H", "o", "m", "e", " ", "S", "w", "e", "e", "t", " ", "H", "o", "m",
          "e", " ", "-", " ", "S", "t", "e", "p", "h", "a", "n", "s", "d", "o",
          "m", " ", "I", "I">>,
        <<"B", "M">>>>,
      <<<<"M", "a", "r", "g", "o", "t">>,
        <<"K", "L", "I", "E">>>>,
      <<<<"D", "e", "n", "u", "b", "e", " ", "S", "u", "i", "t", "e", "s">>,
        <<"L", "A", "M", "M">>>>,
      <<<<"C", "é", "l", "e", "s", "t", "e", " ", "S", "u", "i", "t", "e",
          "s">>,
        <<"Z", "I", "M", "M">>>>,
      <<<<"B", "M", "D", "0", "1">>,
        <<"B", "M", "D", "0", "1">>>>,
      <<<<"B", "M", "D", "0", "2">>,
        <<"B", "M", "D", "0", "2">>>>,
      <<<<"B", "M", "D", "0", "3">>,
        <<"B", "M", "D", "0", "3">>>>,
      <<<<"B", "M", "D", "0", "4">>,
        <<"B", "M", "D", "0", "4">>>>,
      <<<<"B", "M", "D", "0", "5">>,
        <<"B", "M", "D", "0", "5">>>>,
      <<<<"B", "M", "D", "0", "6">>,
        <<"B", "M", "D", "0", "6">>>>,
      <<<<"B", "M", "D", "0", "7">>,
        <<"B", "M", "D", "0", "7">>>>,
      <<<<"B", "M", "D", "0", "8">>,
        <<"B", "M", "D", "0", "8">>>>
    >>

\* mapping[name] of an object literal: the value, or undefined (here <<>>)
Lookup(mapping, name) ==
    IF \E i \in 1..Len(mapping) : mapping[i][1] = name
    THEN mapping[CHOOSE i \in 1..Len(mapping) : mapping[i][1] = name][2]
    ELSE <<>>

\* the resolver with 'stephansdom' tested before 'stephansdom ii'
getLocationShortStephansdomFirst(propertyName, source) ==
    LET name == Trim(propertyName)
        lowerName == ToLowerCase(name)
    IN IF source = SourceAirBnB
       THEN IF Lookup(airbnbMapping, name) # <<>> THEN Lookup(airbnbMapping,
           name)
            ELSE IF Includes(lowerName, <<"c", "e", "n", "t", "r", "a",
                "l">>) /\ Includes(lowerName, <<"p", "e", "n", "t", "h", "o",
                "u", "s", "e">>) THEN <<"L", "A", "S">>
            ELSE IF Includes(lowerName, <<"s", "p", "a", "c", "i", "o", "u",
                "s">>) /\ Includes(lowerName, <<"g", "e", "m">>) THEN <<"B",
                "E", "G", "A">>
            ELSE IF Includes(lowerName, <<"g", "r", "a", "n",
                "d">>) /\ Includes(lowerName, <<"v", "i", "e", "n", "n", "e",
                "s", "e">>) THEN <<"Z", "I", "M", "M">>
            ELSE IF Includes(lowerName, <<"e", "l", "e", "g", "a", "n",
                "t">>) /\ Includes(lowerName, <<"p", "e", "a", "c", "e", "f",
                "u", "l">>) THEN <<"L", "A", "M", "M">>
            ELSE IF Includes(lowerName, <<"t", "e", "r", "r", "a", "c",
                "e">>) /\ Includes(lowerName, <<"u", "1">>) THEN <<"L", "A",
                "M", "M">>
            ELSE IF Includes(lowerName, <<"l", "e", "o", "p", "o", "l",
                "d">>) THEN <<"L", "A", "S">>
            ELSE IF Includes(lowerName, <<"7", " ", "m", "i", "n">>)
                    \/ Includes(lowerName, <<"c", "e", "n", "t", "e",
                        "r">>) THEN <<"L", "A", "S">>
            ELSE name
       ELSE IF Lookup(propertyMapping, name) # <<>>
            THEN Lookup(propertyMapping, name)
            ELSE IF Includes(lowerName, <<"v", "i", "e", "n", "n", "a", " ",
                "c", "e", "n", "t", "r", "a", "l">>) THEN <<"B", "E", "G",
                "A">>
            ELSE IF Includes(lowerName, <<"s", "t", "a", "t", "e", " ", "o",
                "p", "e", "r", "a">>) THEN <<"W", "A", "F", "G">>
            ELSE IF Includes(lowerName, <<"l", "e", "o", "p", "o", "l",
                "d">>) THEN <<"L", "A", "S">>
            ELSE IF Includes(lowerName, <<"s", "t", "e", "p", "h", "a", "n",
                "s", "d", "o", "m">>) THEN <<"K", "R", "A">>
            ELSE IF Includes(lowerName, <<"s", "t", "e", "p", "h", "a", "n",
                "s", "d", "o", "m", " ", "i", "i">>) THEN <<"B", "M">>
            ELSE IF Includes(lowerName, <<"m", "a", "r", "g", "o",
                "t">>) THEN <<"K", "L", "I", "E">>
            ELSE IF Includes(lowerName, <<"d", "e", "n", "u", "b",
                "e">>) THEN <<"L", "A", "M", "M">>
            ELSE IF Includes(lowerName, <<"c", "é", "l", "e", "s", "t", "e">>)
                    \/ Includes(lowerName, <<"c", "e", "l", "e", "s", "t",
                        "e">>) THEN <<"Z", "I", "M", "M">>
            ELSE name

getLocationShort(propertyName, source) ==
    LET name == Trim(propertyName)
        lowerName == ToLowerCase(name)
    IN IF source = SourceAirBnB
       THEN IF Lookup(airbnbMapping, name) # <<>> THEN Lookup(airbnbMapping,
           name)
            ELSE IF Includes(lowerName, <<"c", "e", "n", "t", "r", "a",
                "l">>) /\ Includes(lowerName, <<"p", "e", "n", "t", "h", "o",
                "u", "s", "e">>) THEN <<"L", "A", "S">>
            ELSE IF Includes(lowerName, <<"s", "p", "a", "c", "i", "o", "u",
                "s">>) /\ Includes(lowerName, <<"g", "e", "m">>) THEN <<"B",
                "E", "G", "A">>
            ELSE IF Includes(lowerName, <<"g", "r", "a", "n",
                "d">>) /\ Includes(lowerName, <<"v", "i", "e", "n", "n", "e",
                "s", "e">>) THEN <<"Z", "I", "M", "M">>
            ELSE IF Includes(lowerName, <<"e", "l", "e", "g", "a", "n",
                "t">>) /\ Includes(lowerName, <<"p", "e", "a", "c", "e", "f",
                "u", "l">>) THEN <<"L", "A", "M", "M">>
            ELSE IF Includes(lowerName, <<"t", "e", "r", "r", "a", "c",
                "e">>) /\ Includes(lowerName, <<"u", "1">>) THEN <<"L", "A",
                "M", "M">>
            ELSE IF Includes(lowerName, <<"l", "e", "o", "p", "o", "l",
                "d">>) THEN <<"L", "A", "S">>
            ELSE IF Includes(lowerName, <<"7", " ", "m", "i", "n">>)
                    \/ Includes(lowerName, <<"c", "e", "n", "t", "e",
                        "r">>) THEN <<"L", "A", "S">>
            ELSE name
       ELSE IF Lookup(propertyMapping, name) # <<>>
            THEN Lookup(propertyMapping, name)
            ELSE IF Includes(lowerName, <<"v", "i", "e", "n", "n", "a", " ",
                "c", "e", "n", "t", "r", "a", "l">>) THEN <<"B", "E", "G",
                "A">>
            ELSE IF Includes(lowerName, <<"s", "t", "a", "t", "e", " ", "o",
                "p", "e", "r", "a">>) THEN <<"W", "A", "F", "G">>
            ELSE IF Includes(lowerName, <<"l", "e", "o", "p", "o", "l",
                "d">>) THEN <<"L", "A", "S">>
            ELSE IF Includes(lowerName, <<"s", "t", "e", "p", "h", "a", "n",
                "s", "d", "o", "m", " ", "i", "i">>) THEN <<"B", "M">>
            ELSE IF Includes(lowerName, <<"s", "t", "e", "p", "h", "a", "n",
                "s", "d", "o", "m">>) THEN <<"K", "R", "A">>
            ELSE IF Includes(lowerName, <<"m", "a", "r", "g", "o",
                "t">>) THEN <<"K", "L", "I", "E">>
            ELSE IF Includes(lowerName, <<"d", "e", "n", "u", "b",
                "e">>) THEN <<"L", "A", "M", "M">>
            ELSE IF Includes(lowerName, <<"c", "é", "l", "e", "s", "t", "e">>)
                    \/ Includes(lowerName, <<"c", "e", "l", "e", "s", "t",
                        "e">>) THEN <<"Z", "I", "M", "M">>
            ELSE name

\* a stable sort of seq by the integer keys key[i]
StableSort(seq, key) ==
    LET n == Len(seq)
        rank(i) == Cardinality({j \in 1..n : key[j] < key[i]
                                             \/ (key[j] = key[i] /\ j < i)}) + 1
    IN [p \in 1..n |-> seq[CHOOSE i \in 1..n : rank(i) = p]]

\* the rows handed to the export by the parsers
Name_JaneDoe == <<"J", "a", "n", "e", " ", "D", "o", "e">>

Name_MaxMuster == <<"M", "a", "x", " ", "M", "u", "s", "t", "e", "r">>

Ref_Booking == <<"4", "0", "0", "1", "2", "3", "4", "5", "6", "7">>

CurrencyEUR == <<"E", "U", "R">>

\* rows of parsePayoutCSV: the departure is an ISO date, the amount is > 0
\* or NaN
EmitBookingRows ==
    {[propertyName |-> <<"B", "M", "D", "0", "1">>, bookerName |-> Name_JaneDoe,
      departure |-> July2, totalPayment |-> Num(110, 0), location |-> <<>>,
      arrival |-> June30, currency |-> CurrencyEUR,
      reservationNumber |-> Ref_Booking],
     [propertyName |-> <<"M", "a", "r", "g", "o", "t">>,
         bookerName |-> Name_MaxMuster,
      departure |-> June30, totalPayment |-> Num(2975, 1), location |-> <<>>,
      arrival |-> NoDate, currency |-> CurrencyEUR, reservationNumber |-> <<>>],
     [propertyName |-> <<"B", "M", "D", "0", "1">>, bookerName |-> Name_JaneDoe,
      departure |-> August1, totalPayment |-> NaN, location |-> <<>>,
      arrival |-> July2, currency |-> CurrencyEUR,
      reservationNumber |-> Ref_Booking]}

\* rows of parseAirbnbCSV: the end date is any non-empty text, the earnings
\* are > 0
EmitAirbnbRows ==
    {[guestName |-> <<"A", "n", "n", " ", "L", "e", "e">>,
        startDate |-> June30, endDate |-> July2,
      listing |-> (<<"S", "p", "a", "c", "i", "o", "u", "s", " ", "C", "e",
          "n", "t", "r", "a", "l", " ">> \o <<"P", "e", "n", "t", "h", "o",
          "u", "s", "e">>), earnings |-> Num(2, 0),
      confirmationCode |-> <<"H", "M", "A", "B", "C", "D", "1", "2", "3",
          "4">>],
     [guestName |-> Name_MaxMuster, startDate |-> June30, endDate |-> June30,
      listing |-> <<" ", "L", "o", "f", "t">>, earnings |-> Num(110, 0),
      confirmationCode |-> <<"H", "M", "A", "B", "C", "D", "1", "2", "3",
          "4">>],
     [guestName |-> <<"A", "n", "n", " ", "L", "e", "e">>, startDate |-> July2,
         endDate |-> BadDate,
      listing |-> (<<"S", "p", "a", "c", "i", "o", "u", "s", " ", "C", "e",
          "n", "t", "r", "a", "l", " ">> \o <<"P", "e", "n", "t", "h", "o",
          "u", "s", "e">>), earnings |-> Num(110, 0),
      confirmationCode |-> <<"H", "M", "A", "B", "C", "D", "1", "2", "3",
          "4">>]}

SeqsUpTo(set, n) == UNION {[1..k -> set] : k \in 0..n}

FromBooking(booking) ==
    [propertyName |-> booking.propertyName, bookerName |-> booking.bookerName,
     departure |-> booking.departure, totalPayment |-> booking.totalPayment,
     source |-> SourceBooking, arrival |-> booking.arrival,
     currency |-> booking.currency,
     reservationNumber |-> booking.reservationNumber]

FromAirbnb(airbnb) ==
    [propertyName |-> airbnb.listing, bookerName |-> airbnb.guestName,
     departure |-> airbnb.endDate, totalPayment |-> airbnb.earnings,
     source |-> SourceAirBnB, arrival |-> airbnb.startDate,
     currency |-> CurrencyEUR, reservationNumber |-> airbnb.confirmationCode]

Map(f(_), seq) == [i \in 1..Len(seq) |-> f(seq[i])]

\* the list left as it was merged
KeepMergeOrder(list) == {list}

\* list.sort((a, b) => new Date(a.departure).getTime() -
\* new Date(b.departure).getTime()): the sort is stable; with an invalid date
\* the comparator yields NaN and the order is the implementation's choice
SortByDeparture(list) ==
    LET n == Len(list)
        orderings ==
            {[i \in 1..n |-> list[p[i]]] :
                p \in {q \in [1..n -> 1..n] :
                         \A i, j \in 1..n : i # j => q[i] # q[j]}}
    IN IF \E i \in 1..n : InvalidDate(list[i].departure)
       THEN orderings
       ELSE {StableSort(list, [i \in 1..n |-> GetTime(list[i].departure)])}

convertToUnifiedReservations(bRows, aRows) ==
    SortByDeparture(Map(FromBooking, bRows) \o Map(FromAirbnb, aRows))

Konto_200000 == <<"2", "0", "0", "0", "0", "0">>

Konto_8001 == <<"8", "0", "0", "1">>

Konto_8003 == <<"8", "0", "0", "3">>

\* the counter left where it is
SameBelegnr(n) == n

\* currentBelegnr++
NextBelegnr(n) == n + 1

\* the city tax entered with its own sign
CityTaxBetragUnsigned(t, useComma) == formatDecimal(t.cityTax, useComma)

\* formatDecimal(-taxes.cityTax, useCommaDecimal)
CityTaxBetrag(t, useComma) == formatDecimal(Neg(t.cityTax), useComma)

\* the body of the loop over the reservations: the three rows of one
\* reservation
RowsOfReservation(reservation, n, useComma) ==
    LET belegnr == IntToString(n)
        belegdat == formatDate(reservation.departure)
        t == calculateAccountingTaxes(reservation.totalPayment)
        propertyCode ==
            getLocationShort(reservation.propertyName, reservation.source)
        text == belegnr \o <<" ">> \o propertyCode \o <<" ">>
                \o (IF reservation.reservationNumber = <<>> THEN <<"N", "/",
                    "A">>
                    ELSE reservation.reservationNumber)
                \o <<" ">> \o reservation.bookerName \o <<" ">>
                \o reservation.source
        row(konto, betrag, steuer) ==
            [konto |-> konto, belegnr |-> belegnr, belegdat |-> belegdat,
             symbol |-> <<"A", "R">>, betrag |-> betrag, steuer |-> steuer,
             text |-> text]
    IN << row(Konto_200000, formatDecimal(t.brutto, useComma),
              formatDecimal(Zero, useComma)),
          row(Konto_8001, formatDecimal(Neg(t.netto), useComma),
              formatDecimal(Neg(t.vat), useComma)),
          row(Konto_8003, CityTaxBetrag(t, useComma),
              formatDecimal(Zero, useComma)) >>

CsvHeaderLine ==
    <<"k", "o", "n", "t", "o", ";", "b", "e", "l", "e", "g", "n", "r", ";",
        "b", "e", "l", "e", "g", "d", "a", "t", ";">>
    \o <<"s", "y", "m", "b", "o", "l", ";", "b", "e", "t", "r", "a", "g", ";",
        "s", "t", "e", "u", "e", "r", ";", "t", "e", "x", "t">>

\* the row written as seven cells, without the quotes around the line
CsvLineBare(row) ==
    row.konto \o <<";">> \o row.belegnr \o <<";">> \o row.belegdat
    \o <<";">> \o row.symbol \o <<";">> \o row.betrag \o <<";">> \o row.steuer
    \o <<";">> \o row.text

\* `"${row.konto};${row.belegnr};...;${row.text}"`
CsvLine(row) ==
    <<"\"">> \o row.konto \o <<";">> \o row.belegnr \o <<";">> \o row.belegdat
    \o <<";">> \o row.symbol \o <<";">> \o row.betrag \o <<";">> \o row.steuer
    \o <<";">> \o row.text \o <<"\"">>

RECURSIVE Join(_, _)
\* lines.join(sep)
Join(lines, sep) ==
    IF lines = <<>> THEN <<>>
    ELSE IF Len(lines) = 1 THEN lines[1]
    ELSE lines[1] \o sep \o Join(Tail(lines), sep)

(***************************************************************************)
(* Reconciliation: the ledger (BMD list) parser, the reservations parser   *)
(* and the matcher of the paired upload.                                   *)
(***************************************************************************)
\* the day the request is served: new Date().toISOString().split('T')[0]
Today == Date(2025, 9, 15)

\* s.split(sep) for a separator of one character: the pieces between the
\* occurrences of sep, in order
Split(s, sep) ==
    LET at == {i \in 1..Len(s) : s[i] = sep}
        n == Cardinality(at)
        pos(k) == IF k = 0 THEN 0
                  ELSE IF k = n + 1 THEN Len(s) + 1
                  ELSE CHOOSE i \in at : Cardinality({j \in at : j <= i}) = k
    IN [k \in 1..(n + 1) |-> SubSeq(s, pos(k - 1) + 1, pos(k) - 1)]

StartsWith(s, c) == s # <<>> /\ s[1] = c

EndsWith(s, c) == s # <<>> /\ s[Len(s)] = c

\* a cell without its surrounding quotes, trimmed
Unquote(current) ==
    LET value == Trim(current)
    IN IF StartsWith(value, "\"") /\ EndsWith(value, "\"")
       THEN SubSeq(value, 2, Len(value) - 1)
       ELSE value

RECURSIVE ScanCSVRow(_, _, _, _, _)
\* the character loop of parseCSVRow
ScanCSVRow(row, delimiter, i, current, inQuotes) ==
    IF i > Len(row) THEN <<Unquote(current)>>
    ELSE IF row[i] = "\""
         THEN ScanCSVRow(row, delimiter, i + 1, current, ~inQuotes)
    ELSE IF row[i] = delimiter /\ ~inQuotes
         THEN <<Unquote(current)>> \o ScanCSVRow(row, delimiter, i + 1, <<>>, FALSE)
    ELSE ScanCSVRow(row, delimiter, i + 1, Append(current, row[i]), inQuotes)

parseCSVRow(row, delimiter) ==
    LET processRow == Trim(row)
    IN IF StartsWith(processRow, "\"") /\ EndsWith(processRow, "\"")
          /\ delimiter = ";"
       THEN Map(Trim, Split(SubSeq(processRow, 2, Len(processRow) - 1), ";"))
       ELSE ScanCSVRow(processRow, delimiter, 1, <<>>, FALSE)

\* headerRow.includes(';') && !headerRow.includes(',') ? ';' : ','
DetectDelimiter(headerRow) ==
    IF Includes(headerRow, <<";">>) /\ ~Includes(headerRow, <<",">>) THEN ";"
    ELSE ","

\* /^\d+$/.test(s)
AllDigits(s) == s # <<>> /\ \A i \in 1..Len(s) : s[i] \in Digits

\* YYYYMMDD to YYYY-MM-DD, the text being cut without a look at its content
formatBMDDate(bmdDate) ==
    IF Len(bmdDate) # 8 THEN Today
    ELSE IF AllDigits(bmdDate)
         THEN Date(DigitsValue(SubSeq(bmdDate, 1, 4)),
                   DigitsValue(SubSeq(bmdDate, 5, 6)),
                   DigitsValue(SubSeq(bmdDate, 7, 8)))
         ELSE BadDate

\* the reservation number of the text cell: the first part made of digits
\* only and at least 8 long, if the text has 4 parts or more
NumberIndex(textParts) ==
    IF Len(textParts) >= 4
       /\ \E j \in 1..Len(textParts) :
            AllDigits(textParts[j]) /\ Len(textParts[j]) >= 8
    THEN CHOOSE j \in 1..Len(textParts) :
            /\ AllDigits(textParts[j]) /\ Len(textParts[j]) >= 8
            /\ \A h \in 1..(j - 1) :
                 ~(AllDigits(textParts[h]) /\ Len(textParts[h]) >= 8)
    ELSE 0

\* the parts between the reservation number and the last part, those that
\* hold '.com' or 'AirBnB' left out, joined by spaces
GuestNameAfter(textParts, j) ==
    LET between == SubSeq(textParts, j + 1, Len(textParts) - 1)
        keep(part) == ~Includes(part, <<".", "c", "o", "m">>)
                      /\ ~Includes(part, SourceAirBnB)
    IN Join(SelectSeq(between, keep), <<" ">>)

\* parseFloat(amountStr) || 0 of the betrag cell
BMDAmount(betragStr) ==
    LET unquoted == RemoveChars(betragStr, {"\""})
        amountStr == ReplaceFirst(IF unquoted = <<>> THEN <<"0">> ELSE unquoted,
                                  ",", ".")
    IN OrZero(ParseFloat(amountStr))

RECURSIVE parseBMDRows(_, _, _, _, _)
\* the loop of parseBMDList over the data rows
parseBMDRows(rows, delimiter, i, entries, seenBelegnrs) ==
    IF i > Len(rows) THEN entries
    ELSE
    LET values == parseCSVRow(rows[i], delimiter)
        skip == parseBMDRows(rows, delimiter, i + 1, entries, seenBelegnrs)
    IN IF Len(values) < 7 THEN skip
       ELSE IF values[1] # Konto_200000 THEN skip
       ELSE
       LET belegnr == values[2]
           text == values[7]
           bruttoAmount == BMDAmount(values[5])
           textParts == Split(Trim(text), " ")
           j == NumberIndex(textParts)
           entry == [belegnr |-> belegnr,
                     reservationNumber |->
                         IF j = 0 THEN <<>> ELSE textParts[j],
                     guestName |->
                         IF j = 0 THEN <<>> ELSE GuestNameAfter(textParts, j),
                     bruttoAmount |-> bruttoAmount,
                     checkoutDate |-> formatBMDDate(values[3])]
       IN IF belegnr = <<>> THEN skip
          ELSE IF belegnr \in seenBelegnrs THEN skip
          ELSE IF ~Gt0(bruttoAmount)
               THEN parseBMDRows(rows, delimiter, i + 1, entries,
                                 seenBelegnrs \cup {belegnr})
          ELSE parseBMDRows(rows, delimiter, i + 1, Append(entries, entry),
                            seenBelegnrs \cup {belegnr})

\* parseBMDList with every data row read on its own, so that a voucher number
\* already seen is not skipped
parseBMDListKeepingRepeats(headerRow, rows) ==
    LET alone(i) == parseBMDRows(<<rows[i]>>, DetectDelimiter(headerRow), 1,
                                 <<>>, {})
        RECURSIVE from(_)
        from(i) == IF i > Len(rows) THEN <<>> ELSE alone(i) \o from(i + 1)
    IN from(1)

\* the entries of a ledger file of a header row and data rows
parseBMDList(headerRow, rows) ==
    parseBMDRows(rows, DetectDelimiter(headerRow), 1, <<>>, {})

\* parseDate of the route: the ISO date, today for a text that is no date
routeParseDate(dateString) ==
    IF InvalidDate(dateString) THEN Today ELSE ToISODate(GetTime(dateString))

Prop_KLIE == <<"K", "L", "I", "E">>

\* the cells of one data row of the reservations file, by column name
ReservationOf(rowData) ==
    [reservationNumber |-> rowData.bookNumber,
     propertyName |-> Prop_KLIE,
     bookerName |-> rowData.guestNames,
     arrival |-> routeParseDate(rowData.checkIn),
     departure |-> routeParseDate(rowData.checkOut),
     totalPayment |-> OrZero(ParseFloat(RemoveChars(rowData.price, {"\"", ","}))),
     currency |-> CurrencyEUR]

RECURSIVE parseReservationsRows(_, _, _)
\* the loop of parseReservationsCSV over the data rows
parseReservationsRows(rows, i, list) ==
    IF i > Len(rows) THEN list
    ELSE
    LET rowData == rows[i]
        skip == parseReservationsRows(rows, i + 1, list)
    IN IF Includes(rowData.status, <<"c", "a", "n", "c", "e", "l", "l", "e",
        "d">>) THEN skip
       ELSE IF rowData.bookNumber = <<>> THEN skip
       ELSE IF ~Gt0(ReservationOf(rowData).totalPayment) THEN skip
       ELSE parseReservationsRows(rows, i + 1,
                                  Append(list, ReservationOf(rowData)))

parseReservationsCSV(rows) == parseReservationsRows(rows, 1, <<>>)

propertyMap ==
    <<<<<<"H", "o", "m", "e", " ", "S", "w", "e", "e", "t", " ", "H", "o", "m",
        "e", " ", "-", " ">>
        \o <<"V", "i", "e", "n", "n", "a", " ", "C", "e", "n", "t", "r", "a",
            "l">>, <<"B", "E", "G", "A">>>>,
      <<<<"H", "o", "m", "e", " ", "S", "w", "e", "e", "t", " ", "H", "o", "m",
          "e", " ", "-", " ">>
        \o <<"S", "t", "a", "t", "e", " ", "O", "p", "e", "r", "a">>, <<"W",
            "A", "F", "G">>>>,
      <<<<"H", "o", "m", "e", " ", "S", "w", "e", "e", "t", " ", "H", "o", "m",
          "e", " ", "-", " ">>
        \o <<"L", "e", "o", "p", "o", "l", "d">>, <<"L", "A", "S">>>>,
      <<<<"H", "o", "m", "e", " ", "S", "w", "e", "e", "t", " ", "H", "o", "m",
          "e", " ", "-", " ">>
        \o <<"S", "t", "e", "p", "h", "a", "n", "s", "d", "o", "m">>, <<"K",
            "R", "A">>>>,
      <<<<"H", "o", "m", "e", " ", "S", "w", "e", "e", "t", " ", "H", "o", "m",
          "e", " ", "-", " ">>
        \o <<"S", "t", "e", "p", "h", "a", "n", "s", "d", "o", "m", " ", "I",
            "I">>, <<"B", "M">>>>,
      <<<<"M", "a", "r", "g", "o", "t">>, <<"K", "L", "I", "E">>>>,
      <<<<"D", "e", "n", "u", "b", "e", " ", "S", "u", "i", "t", "e", "s">>,
          <<"L", "A", "M", "M">>>>,
      <<<<"C", "é", "l", "e", "s", "t", "e", " ", "S", "u", "i", "t", "e",
          "s">>,
        <<"Z", "I", "M", "M">>>>
    >>

getPropertyId(propertyName) ==
    LET name == ToLowerCase(propertyName)
    IN IF Lookup(propertyMap, propertyName) # <<>>
       THEN Lookup(propertyMap, propertyName)
       ELSE IF Includes(name, <<"v", "i", "e", "n", "n", "a", " ", "c", "e",
           "n", "t", "r", "a", "l">>)
               \/ Includes(name, <<"b", "e", "c", "h", "a", "r", "d", "g", "a",
                   "s", "s", "e">>)
            THEN <<"B", "E", "G", "A">>
       ELSE IF Includes(name, <<"s", "t", "a", "t", "e", " ", "o", "p", "e",
           "r", "a">>)
               \/ Includes(name, <<"w", "a", "l", "f", "i", "s", "c", "h", "g",
                   "a", "s", "s", "e">>)
            THEN <<"W", "A", "F", "G">>
       ELSE IF Includes(name, <<"l", "e", "o", "p", "o", "l", "d">>)
               \/ Includes(name, <<"l", "a", "s", "s", "a", "l", "l", "e", "s",
                   "t", "r", "a", "ß", "e">>)
            THEN <<"L", "A", "S">>
       ELSE IF Includes(name, <<"s", "t", "e", "p", "h", "a", "n", "s", "d",
           "o", "m">>)
               /\ Includes(name, <<"k", "r", "a", "m", "e", "r", "g", "a", "s",
                   "s", "e">>)
            THEN <<"K", "R", "A">>
       ELSE IF Includes(name, <<"s", "t", "e", "p", "h", "a", "n", "s", "d",
           "o", "m">>)
               /\ Includes(name, <<"b", "a", "u", "e", "r", "n", "m", "a", "r",
                   "k", "t">>)
            THEN <<"B", "M">>
       ELSE IF Includes(name, <<"m", "a", "r", "g", "o", "t">>)
               \/ Includes(name, <<"k", "l", "i", "e", "b", "e", "r", "g", "a",
                   "s", "s", "e">>)
            THEN <<"K", "L", "I", "E">>
       ELSE IF Includes(name, <<"d", "e", "n", "u", "b", "e">>) THEN <<"L",
           "A", "M", "M">>
       ELSE IF Includes(name, <<"c", "é", "l", "e", "s", "t", "e">>)
            THEN <<"Z", "I", "M", "M">>
       ELSE IF propertyName # <<>> THEN propertyName
       ELSE <<"U", "N", "K", "N", "O", "W", "N">>

UnknownGuest == <<"U", "n", "k", "n", "o", "w", "n", " ", "G", "u", "e", "s",
    "t">>

\* the guest of a record without reservation: the placeholder in every case
MissGuestNamePlaceholder(bmdEntry) == UnknownGuest

\* bmdEntry.guestName || 'Unknown Guest'
MissGuestName(bmdEntry) ==
    IF bmdEntry.guestName # <<>> THEN bmdEntry.guestName ELSE UnknownGuest

\* every ledger entry paired with the first reservation
PairedWithFirst(i) == 1

\* reservations[i] is paired with bmdEntries[i]
PairedWith(i) == i

\* a || b for date texts: the empty text is falsy
OrDate(a, b) == IF a # NoDate THEN a ELSE b

\* the day before, as new Date(d).getTime() - 24 h then toISOString(), which
\* throws a RangeError for an invalid date (BadDate stands for the throw)
DayBefore(d) == IF InvalidDate(d) THEN BadDate ELSE ToISODate(GetTime(d) - 1)

\* the record of a ledger entry and the reservation it is merged with
MergedWith(reservationId, bmdEntry, reservation) ==
    LET checkoutDate ==
            OrDate(reservation.departure, OrDate(bmdEntry.checkoutDate, Today))
        checkinDate ==
            IF reservation.arrival # NoDate THEN reservation.arrival
            ELSE DayBefore(checkoutDate)
    IN [reservationId |-> reservationId,
        invoiceNumber |-> bmdEntry.belegnr,
        guestName |-> reservation.bookerName,
        checkInDate |-> checkinDate,
        checkOutDate |-> checkoutDate,
        amountPaidGross |-> bmdEntry.bruttoAmount,
        currency |-> reservation.currency,
        property |-> reservation.propertyName,
        propertyId |-> getPropertyId(reservation.propertyName)]

\* the record of a ledger entry whose reservation number is in no reservation
LedgerOnly(bmdEntry) ==
    LET checkoutDate == OrDate(bmdEntry.checkoutDate, Today)
    IN [reservationId |-> bmdEntry.reservationNumber,
        invoiceNumber |-> bmdEntry.belegnr,
        guestName |-> MissGuestName(bmdEntry),
        checkInDate |-> DayBefore(checkoutDate),
        checkOutDate |-> checkoutDate,
        amountPaidGross |-> bmdEntry.bruttoAmount,
        currency |-> CurrencyEUR,
        property |-> Prop_KLIE,
        propertyId |-> Prop_KLIE]

HasReservationNumber(entry) ==
    entry.reservationNumber # <<>> /\ Len(entry.reservationNumber) >= 8

\* reservationMap.get(number): the last reservation set under the number
MapHas(list, number) ==
    \E i \in 1..Len(list) : list[i].reservationNumber = number

MapGet(list, number) ==
    list[CHOOSE i \in 1..Len(list) :
            /\ list[i].reservationNumber = number
            /\ \A j \in (i + 1)..Len(list) : list[j].reservationNumber # number]

\* the records of matchReservations; a record whose check-in date is BadDate
\* stands for the RangeError thrown while it was built
matchReservations(entries, list) ==
    LET numbered == SelectSeq(entries, HasReservationNumber)
        directMatches ==
            [k \in 1..Len(numbered) |->
                IF MapHas(list, numbered[k].reservationNumber)
                THEN MergedWith(numbered[k].reservationNumber, numbered[k],
                                MapGet(list, numbered[k].reservationNumber))
                ELSE LedgerOnly(numbered[k])]
        pairingCount == IF Len(entries) < Len(list) THEN Len(entries)
                        ELSE Len(list)
        sequentialMatches ==
            [i \in 1..pairingCount |->
                MergedWith(list[PairedWith(i)].reservationNumber, entries[i],
                           list[PairedWith(i)])]
    IN IF Len(numbered) > 0 /\ Len(directMatches) # 0 THEN directMatches
       ELSE sequentialMatches

\* the ledger files: lines as generateAccountingCSV writes them
LedgerLines ==
    { CsvLine([konto |-> <<"2", "0", "0", "0", "0", "0">>, belegnr |-> <<"1">>,
             belegdat |-> <<"2", "0", "2", "5", "0", "7", "0", "2">>,
             symbol |-> <<"A", "R">>, betrag |-> <<"1", "1", "0", ",", "0",
                 "0">>,
             steuer |-> <<"0", ",", "0", "0">>,
             text |-> <<"1", " ", "B", "M", "D", "0", "1", " ", "4", "0", "0">>
                     \o <<"1", "2", "3", "4", "5", "6", "7", " ", "J", "a",
                         "n">>
                     \o <<"e", " ", "D", "o", "e", " ", "B", "o", "o", "k",
                         "i">>
                     \o <<"n", "g", ".", "c", "o", "m">>]),
      CsvLine([konto |-> <<"2", "0", "0", "0", "0", "0">>, belegnr |-> <<"2">>,
             belegdat |-> <<"2", "0", "2", "5", "0", "6", "3", "0">>,
             symbol |-> <<"A", "R">>, betrag |-> <<"2", "9", "7", ",", "5",
                 "0">>,
             steuer |-> <<"0", ",", "0", "0">>,
             text |-> <<"2", " ", "K", "L", "I", "E", " ", "N", "/", "A", " ">>
                     \o <<"M", "a", "x", " ", "M", "u", "s", "t", "e", "r",
                         " ">>
                     \o <<"B", "o", "o", "k", "i", "n", "g", ".", "c", "o",
                         "m">>]),
      CsvLine([konto |-> <<"2", "0", "0", "0", "0", "0">>, belegnr |-> <<"3">>,
             belegdat |-> <<"2", "0", "2", "5", "0", "7", "0", "2">>,
             symbol |-> <<"A", "R">>, betrag |-> <<"2", ",", "0", "0">>,
             steuer |-> <<"0", ",", "0", "0">>,
             text |-> <<"3", " ", "L", "A", "S", " ", "4", "0", "0", "9", "9">>
                     \o <<"9", "9", "9", "9", "9", " ", "A", "i", "r", "B",
                         "n">>
                     \o <<"B">>]),
      CsvLine([konto |-> <<"2", "0", "0", "0", "0", "0">>, belegnr |-> <<"4">>,
             belegdat |-> <<"2", "0", "2", "5", "0", "8", "0", "1">>,
             symbol |-> <<"A", "R">>, betrag |-> <<"1", "1", "0", ".", "0",
                 "0">>,
             steuer |-> <<"0", ".", "0", "0">>,
             text |-> <<"4", " ", "K", "L", "I", "E", " ", "4", "0", "0", "8">>
                     \o <<"8", "8", "8", "8", "8", "8", " ", "M", "a", "x",
                         " ">>
                     \o <<"M", "u", "s", "t", "e", "r", " ", "B", "o", "o",
                         "k">>
                     \o <<"i", "n", "g", ".", "c", "o", "m">>]),
      CsvLine([konto |-> <<"2", "0", "0", "0", "0", "0">>, belegnr |-> <<"5">>,
             belegdat |-> <<"2", "0", "2", "5", "0", "8", "0", "1">>,
             symbol |-> <<"A", "R">>, betrag |-> <<"5", "0", ",", "0", "0">>,
             steuer |-> <<"0", ",", "0", "0">>,
             text |-> <<"5", " ", "K", "L", "I", "E">>]),
      CsvLine([konto |-> <<"8", "0", "0", "1">>, belegnr |-> <<"1">>,
             belegdat |-> <<"2", "0", "2", "5", "0", "7", "0", "2">>,
             symbol |-> <<"A", "R">>, betrag |-> <<"-", "9", "7", ",", "1",
                 "7">>,
             steuer |-> <<"-", "9", ",", "7", "2">>,
             text |-> <<"1", " ", "B", "M", "D", "0", "1", " ", "4", "0", "0">>
                     \o <<"1", "2", "3", "4", "5", "6", "7", " ", "J", "a",
                         "n">>
                     \o <<"e", " ", "D", "o", "e", " ", "B", "o", "o", "k",
                         "i">>
                     \o <<"n", "g", ".", "c", "o", "m">>]) }

\* the data rows of the reservations files, with the columns Book number,
\* Status, Price, Guest name(s), Check-in, Check-out
BaseReservationRow ==
    [bookNumber |-> Ref_Booking, status |-> <<"o", "k">>,
     price |-> <<"1", "2", "0", ".", "0", "0">>,
     guestNames |-> Name_JaneDoe, checkIn |-> June30, checkOut |-> July2]

ReservationFileRows ==
    { BaseReservationRow,
      [BaseReservationRow EXCEPT
           !.bookNumber = <<"4", "0", "0", "2", "2", "2", "2", "2", "2", "2">>,
           !.price = <<"9", "5">>, !.guestNames = Name_MaxMuster,
           !.checkIn = July2, !.checkOut = August1],
      [BaseReservationRow EXCEPT !.status = (<<"c", "a", "n", "c", "e", "l",
          "l", "e", "d", "_">> \o <<"b", "y", "_", "g", "u", "e", "s", "t">>),
           !.guestNames = <<"A", "n", "n", " ", "L", "e", "e">>],
      [BaseReservationRow EXCEPT !.price = Amount110,
           !.guestNames = <<"A", "n", "n", " ", "L", "e", "e">>,
           !.checkIn = NoDate, !.checkOut = BadDate],
      [BaseReservationRow EXCEPT !.price = AmountZero] }

(***************************************************************************)
(* One call of a parse entry point.  parser names the entry point; the     *)
(* data rows of the file are read one by one (fileRows is the file read so *)
(* far, fates what became of each row); ppc is "running" until the call    *)
(* returns ("returned") or throws ("thrown_structure": fewer than 2 rows,  *)
(* "thrown_novalid": no valid row).                                        *)
(***************************************************************************)
NoSummary == [total |-> 0, valid |-> 0, invalid |-> 0]

TaxIdle == brutto = Zero /\ taxes = NoTaxes

ParseIdle ==
    /\ parser = "none"
    /\ targetMonth = 0
    /\ ppc = "idle"
    /\ rowCount = 0
    /\ isFirstRow = TRUE
    /\ fileRows = <<>>
    /\ fates = <<>>
    /\ validRows = <<>>
    /\ invalidRows = <<>>
    /\ summary = NoSummary

EmitIdle ==
    /\ bookingRows = <<>>
    /\ airbnbRows = <<>>
    /\ startBelegnr = 0
    /\ useCommaDecimal = FALSE
    /\ epc = "idle"
    /\ unified = <<>>
    /\ currentBelegnr = 0
    /\ accountingRows = <<>>
    /\ csvOut = <<>>

NoResponse == [status |-> 0]

MatchIdle ==
    /\ bmdHeaderRow = <<>>
    /\ bmdRows = <<>>
    /\ reservationRows = <<>>
    /\ mpc = "idle"
    /\ bmdEntries = <<>>
    /\ reservations = <<>>
    /\ mergedData = <<>>
    /\ response = NoResponse

NoCall == [fn |-> "none"]

NoResult == [done |-> FALSE]

LibIdle == call = NoCall /\ result = NoResult

\* the counters file when it is missing or holds {}
NoCounters == [k \in {} |-> 0]

StoreIdle ==
    /\ build = "none"
    /\ env = "none"
    /\ today = NoDate
    /\ counters = NoCounters
    /\ issued = <<>>
    /\ inflight = <<>>

InitTax ==
    /\ brutto \in GrossAmounts
    /\ taxes = NoTaxes
    /\ ParseIdle
    /\ EmitIdle
    /\ MatchIdle
    /\ LibIdle
    /\ StoreIdle

CalculateAccountingTaxes ==
    /\ taxes = NoTaxes
    /\ taxes' = calculateAccountingTaxes(brutto)
    /\ UNCHANGED brutto
    /\ UNCHANGED <<parseVars, emitVars, matchVars, libVars, storeVars>>

InitParse ==
    /\ parser \in {"parseCSV", "payoutLib", "payoutCSV", "bookingCSV", "airbnbCSV"}
    /\ targetMonth \in (IF parser = "payoutCSV" THEN {0, 202507} ELSE {0})
    /\ ppc = "running"
    /\ rowCount = 0
    /\ isFirstRow = TRUE
    /\ fileRows = <<>>
    /\ fates = <<>>
    /\ validRows = <<>>
    /\ invalidRows = <<>>
    /\ summary = NoSummary
    /\ TaxIdle
    /\ EmitIdle
    /\ MatchIdle
    /\ LibIdle
    /\ StoreIdle

\* the bookkeeping of one data row
Record(raw, r) ==
    /\ fileRows' = Append(fileRows, raw)
    /\ fates' = Append(fates, [outcome |-> r.outcome, why |-> r.why])
    /\ validRows' = IF r.outcome = "valid" THEN Append(validRows, r.out)
                    ELSE validRows
    /\ invalidRows' = IF r.outcome = "invalid"
                      THEN Append(invalidRows, [row |-> raw, errors |-> r.out])
                      ELSE invalidRows
    /\ rowCount' = rowCount + 1

ParseCSV_onData ==
    /\ parser = "parseCSV" /\ ppc = "running" /\ rowCount < MaxRows
    /\ \E rawRow \in PayoutFileRows :
         Record(rawRow, parseCSV_data(rawRow, isFirstRow))
    /\ isFirstRow' = FALSE
    /\ UNCHANGED <<parser, targetMonth, ppc, summary>>
    /\ UNCHANGED <<taxVars, emitVars, matchVars, libVars, storeVars>>

ParseCSV_onEnd ==
    /\ parser = "parseCSV" /\ ppc = "running"
    /\ ppc' = "returned"
    /\ summary' = [total |-> Len(validRows) + Len(invalidRows),
                   valid |-> Len(validRows), invalid |-> Len(invalidRows)]
    /\ UNCHANGED <<parser, targetMonth, rowCount, isFirstRow, fileRows, fates,
                   validRows, invalidRows>>
    /\ UNCHANGED <<taxVars, emitVars, matchVars, libVars, storeVars>>

PayoutLib_onData ==
    /\ parser = "payoutLib" /\ ppc = "running" /\ rowCount < MaxRows
    /\ \E rawRow \in PayoutFileRows : Record(rawRow, payoutLib_data(rawRow))
    /\ UNCHANGED <<parser, targetMonth, ppc, isFirstRow, summary>>
    /\ UNCHANGED <<taxVars, emitVars, matchVars, libVars, storeVars>>

PayoutLib_onEnd ==
    /\ parser = "payoutLib" /\ ppc = "running"
    /\ ppc' = "returned"
    /\ summary' = [total |-> rowCount,
                   valid |-> Len(validRows), invalid |-> Len(invalidRows)]
    /\ UNCHANGED <<parser, targetMonth, rowCount, isFirstRow, fileRows, fates,
                   validRows, invalidRows>>
    /\ UNCHANGED <<taxVars, emitVars, matchVars, libVars, storeVars>>

PayoutCSV_row ==
    /\ parser = "payoutCSV" /\ ppc = "running" /\ rowCount < MaxRows
    /\ \E rowData \in PayoutFileRows :
         Record(rowData, payoutCSV_row(rowData, targetMonth))
    /\ UNCHANGED <<parser, targetMonth, ppc, isFirstRow, summary>>
    /\ UNCHANGED <<taxVars, emitVars, matchVars, libVars, storeVars>>

\* rows.length < 2 throws; otherwise the rows are sorted by departure and returned
PayoutCSV_return ==
    /\ parser = "payoutCSV" /\ ppc = "running"
    /\ IF rowCount = 0
       THEN ppc' = "thrown_structure" /\ UNCHANGED validRows
       ELSE /\ ppc' = "returned"
            /\ validRows' = StableSort(validRows,
                    [i \in 1..Len(validRows) |-> GetTime(validRows[i].departure)])
    /\ UNCHANGED <<parser, targetMonth, rowCount, isFirstRow, fileRows, fates,
                   invalidRows, summary>>
    /\ UNCHANGED <<taxVars, emitVars, matchVars, libVars, storeVars>>

\* a loop that throws as soon as one row was left out
LoopResultThrowOnAnySkip(n, results) ==
    IF n = 0 THEN "thrown_structure"
    ELSE IF Len(results) < n THEN "thrown_novalid"
    ELSE "returned"

\* rows.length < 2 throws; results.length === 0 after the loop throws
LoopResult(n, results) ==
    IF n = 0 THEN "thrown_structure"
    ELSE IF Len(results) = 0 THEN "thrown_novalid"
    ELSE "returned"

BookingCSV_row ==
    /\ parser = "bookingCSV" /\ ppc = "running" /\ rowCount < MaxRows
    /\ \E row \in BookingFileRows : Record(row, bookingCSV_row(row))
    /\ UNCHANGED <<parser, targetMonth, ppc, isFirstRow, summary>>
    /\ UNCHANGED <<taxVars, emitVars, matchVars, libVars, storeVars>>

BookingCSV_return ==
    /\ parser = "bookingCSV" /\ ppc = "running"
    /\ ppc' = LoopResult(rowCount, validRows)
    /\ UNCHANGED <<parser, targetMonth, rowCount, isFirstRow, fileRows, fates,
                   validRows, invalidRows, summary>>
    /\ UNCHANGED <<taxVars, emitVars, matchVars, libVars, storeVars>>

AirbnbCSV_row ==
    /\ parser = "airbnbCSV" /\ ppc = "running" /\ rowCount < MaxRows
    /\ \E row \in AirbnbFileRows : Record(row, airbnbCSV_row(row))
    /\ UNCHANGED <<parser, targetMonth, ppc, isFirstRow, summary>>
    /\ UNCHANGED <<taxVars, emitVars, matchVars, libVars, storeVars>>

AirbnbCSV_return ==
    /\ parser = "airbnbCSV" /\ ppc = "running"
    /\ ppc' = LoopResult(rowCount, validRows)
    /\ UNCHANGED <<parser, targetMonth, rowCount, isFirstRow, fileRows, fates,
                   validRows, invalidRows, summary>>
    /\ UNCHANGED <<taxVars, emitVars, matchVars, libVars, storeVars>>

(***************************************************************************)
(* One export of the accounting converter: the rows of the parsers are     *)
(* merged and sorted, then generateAccountingCSV goes through the list.    *)
(* epc is "start", "converted", "emitting", then "returned" or             *)
(* "thrown_date" (formatDate threw).                                       *)
(***************************************************************************)
InitEmit ==
    /\ bookingRows \in SeqsUpTo(EmitBookingRows, MaxReservations)
    /\ airbnbRows \in SeqsUpTo(EmitAirbnbRows, MaxReservations - Len(bookingRows))
    /\ startBelegnr \in {1, 998}
    /\ useCommaDecimal \in BOOLEAN
    /\ epc = "start"
    /\ unified = <<>>
    /\ currentBelegnr = 0
    /\ accountingRows = <<>>
    /\ csvOut = <<>>
    /\ TaxIdle
    /\ ParseIdle
    /\ MatchIdle
    /\ LibIdle
    /\ StoreIdle

ConvertToUnifiedReservations ==
    /\ epc = "start"
    /\ unified' \in convertToUnifiedReservations(bookingRows, airbnbRows)
    /\ epc' = "converted"
    /\ UNCHANGED <<bookingRows, airbnbRows, startBelegnr, useCommaDecimal,
                   currentBelegnr, accountingRows, csvOut>>
    /\ UNCHANGED <<taxVars, parseVars, matchVars, libVars, storeVars>>

GenerateAccountingCSV_enter ==
    /\ epc = "converted"
    /\ accountingRows' = <<>>
    /\ currentBelegnr' = startBelegnr
    /\ epc' = "emitting"
    /\ UNCHANGED <<bookingRows, airbnbRows, startBelegnr, useCommaDecimal,
                   unified, csvOut>>
    /\ UNCHANGED <<taxVars, parseVars, matchVars, libVars, storeVars>>

\* one turn of the loop `for (const reservation of unifiedReservations)`
GenerateAccountingCSV_reservation ==
    /\ epc = "emitting"
    /\ Len(accountingRows) < 3 * Len(unified)
    /\ LET reservation == unified[(Len(accountingRows) \div 3) + 1]
       IN IF formatDate(reservation.departure) = DateThrown
          THEN /\ epc' = "thrown_date"
               /\ UNCHANGED <<accountingRows, currentBelegnr>>
          ELSE /\ accountingRows' =
                    accountingRows
                    \o RowsOfReservation(reservation, currentBelegnr,
                                         useCommaDecimal)
               /\ currentBelegnr' = NextBelegnr(currentBelegnr)
               /\ UNCHANGED epc
    /\ UNCHANGED <<bookingRows, airbnbRows, startBelegnr, useCommaDecimal,
                   unified, csvOut>>
    /\ UNCHANGED <<taxVars, parseVars, matchVars, libVars, storeVars>>

GenerateAccountingCSV_return ==
    /\ epc = "emitting"
    /\ Len(accountingRows) = 3 * Len(unified)
    /\ LET csvLines == <<CsvHeaderLine>> \o Map(CsvLine, accountingRows)
       IN csvOut' = Join(csvLines, <<"\n">>)
    /\ epc' = "returned"
    /\ UNCHANGED <<bookingRows, airbnbRows, startBelegnr, useCommaDecimal,
                   unified, currentBelegnr, accountingRows>>
    /\ UNCHANGED <<taxVars, parseVars, matchVars, libVars, storeVars>>

(***************************************************************************)
(* One request to the paired upload: POST parses the ledger file, then the *)
(* reservations file, matches and answers.  mpc is "start", "bmd_parsed",  *)
(* "reservations_parsed", "matched", then "responded".                     *)
(***************************************************************************)
InitMatch ==
    /\ bmdHeaderRow = CsvHeaderLine
    /\ bmdRows \in SeqsUpTo(LedgerLines, MaxLedgerRows)
    /\ reservationRows \in SeqsUpTo(ReservationFileRows, MaxReservationRows)
    /\ mpc = "start"
    /\ bmdEntries = <<>>
    /\ reservations = <<>>
    /\ mergedData = <<>>
    /\ response = NoResponse
    /\ TaxIdle
    /\ ParseIdle
    /\ EmitIdle
    /\ LibIdle
    /\ StoreIdle

ErrorResponse(message) == [status |-> 500, error |-> message]

Post_parseBMDList ==
    /\ mpc = "start"
    /\ IF Len(bmdRows) < 1
       THEN /\ response' = ErrorResponse("Failed to parse BMD file")
            /\ mpc' = "responded"
            /\ UNCHANGED bmdEntries
       ELSE /\ bmdEntries' = parseBMDList(bmdHeaderRow, bmdRows)
            /\ mpc' = "bmd_parsed"
            /\ UNCHANGED response
    /\ UNCHANGED <<bmdHeaderRow, bmdRows, reservationRows, reservations,
                   mergedData>>
    /\ UNCHANGED <<taxVars, parseVars, emitVars, libVars, storeVars>>

Post_parseReservationsCSV ==
    /\ mpc = "bmd_parsed"
    /\ IF Len(reservationRows) < 1
       THEN /\ response' = ErrorResponse("Failed to parse Reservations file")
            /\ mpc' = "responded"
            /\ UNCHANGED reservations
       ELSE /\ reservations' = parseReservationsCSV(reservationRows)
            /\ mpc' = "reservations_parsed"
            /\ UNCHANGED response
    /\ UNCHANGED <<bmdHeaderRow, bmdRows, reservationRows, bmdEntries,
                   mergedData>>
    /\ UNCHANGED <<taxVars, parseVars, emitVars, libVars, storeVars>>

Post_matchReservations ==
    /\ mpc = "reservations_parsed"
    /\ LET merged == matchReservations(bmdEntries, reservations)
       IN IF \E i \in 1..Len(merged) : merged[i].checkInDate = BadDate
          THEN /\ response' = ErrorResponse("Invalid time value")
               /\ mpc' = "responded"
               /\ UNCHANGED mergedData
          ELSE /\ mergedData' = merged
               /\ mpc' = "matched"
               /\ UNCHANGED response
    /\ UNCHANGED <<bmdHeaderRow, bmdRows, reservationRows, bmdEntries,
                   reservations>>
    /\ UNCHANGED <<taxVars, parseVars, emitVars, libVars, storeVars>>

Post_respond ==
    /\ mpc = "matched"
    /\ response' = [status |-> 200,
                    validRows |-> mergedData,
                    invalidRows |-> <<>>,
                    summary |-> [total |-> Len(mergedData),
                                 valid |-> Len(mergedData),
                                 invalid |-> 0]]
    /\ mpc' = "responded"
    /\ UNCHANGED <<bmdHeaderRow, bmdRows, reservationRows, bmdEntries,
                   reservations, mergedData>>
    /\ UNCHANGED <<taxVars, parseVars, emitVars, libVars, storeVars>>

(***************************************************************************)
(* The invoice tax calculator.  The repository holds two files              *)
(* tax-calculator with one calculateTaxes each; calculateTaxes is the one   *)
(* that takes the VAT out of the gross amount and adds the city tax on top, *)
(* calculateTaxesNetBased the one that takes both taxes out of the gross    *)
(* amount.  A rate is a number with at most 3 decimals.                     *)
(***************************************************************************)
\* a rate in thousandths
PerMille(rate) == rate.m * Pow10(3 - rate.e)

calculateTaxes(grossAmount, vatRate, cityTaxRate, cityTaxMode) ==
    LET S == Pow10(grossAmount.e)
        m == grossAmount.m
        v == PerMille(vatRate)
        c == PerMille(cityTaxRate)
        \* netAmount = m / S * 1000 / (1000 + v); vatAmount = grossAmount -
        \* netAmount = m / S * v / (1000 + v)
        netDen == (1000 + v) * S
        \* cityTaxAmount = grossAmount * cityTaxRate or netAmount * cityTaxRate;
        \* totalAmount = grossAmount + cityTaxAmount
        simple == cityTaxMode # "VIENNA_METHOD"
    IN [netAmount |-> Cents(MathRound(100000 * m, netDen)),
        vatAmount |-> Cents(MathRound(100 * m * v, netDen)),
        grossAmount |-> Cents(MathRound(100 * m, S)),
        cityTaxAmount |->
            IF simple THEN Cents(MathRound(100 * m * c, 1000 * S))
            ELSE Cents(MathRound(100 * m * c, netDen)),
        totalAmount |->
            IF simple THEN Cents(MathRound(100 * m * (1000 + c), 1000 * S))
            ELSE Cents(MathRound(100 * m * (1000 + v + c), netDen))]

calculateTaxesNetBased(grossAmount, vatRate, cityTaxRate, cityTaxMode) ==
    LET S == Pow10(grossAmount.e)
        m == grossAmount.m
        v == PerMille(vatRate)
        c == PerMille(cityTaxRate)
        \* netAmount = grossAmount / (1 + cityTaxRate + vatRate)
        den == (1000 + c + v) * S
    IN [netAmount |-> Cents(MathRound(100000 * m, den)),
        vatAmount |-> Cents(MathRound(100 * m * v, den)),
        grossAmount |-> Cents(MathRound(100 * m, S)),
        cityTaxAmount |-> Cents(MathRound(100 * m * c, den)),
        \* totalAmount = netAmount + cityTaxAmount + vatAmount, the gross
        totalAmount |-> Cents(MathRound(100 * m, S))]

\* the rates of a property: the defaults, and those of the test of custom
\* rates
PropertyRates ==
    {[vatRate |-> Num(1, 1), cityTaxRate |-> Num(32, 3)],
     [vatRate |-> Num(2, 1), cityTaxRate |-> Num(5, 2)]}

InitInvoiceTax ==
    /\ \E g \in GrossAmounts, r \in PropertyRates,
          mode \in {"SIMPLE", "VIENNA_METHOD"},
          fn \in {"calculateTaxes", "calculateTaxesNetBased"} :
          call = [fn |-> fn, grossAmount |-> g, vatRate |-> r.vatRate,
                  cityTaxRate |-> r.cityTaxRate, cityTaxMode |-> mode]
    /\ result = NoResult
    /\ TaxIdle
    /\ ParseIdle
    /\ EmitIdle
    /\ MatchIdle
    /\ StoreIdle

CalculateTaxes ==
    /\ call.fn = "calculateTaxes"
    /\ result = NoResult
    /\ result' = [done |-> TRUE,
                  value |-> calculateTaxes(call.grossAmount, call.vatRate,
                                           call.cityTaxRate, call.cityTaxMode)]
    /\ UNCHANGED call
    /\ UNCHANGED <<taxVars, parseVars, emitVars, matchVars, storeVars>>

CalculateTaxesNetBased ==
    /\ call.fn = "calculateTaxesNetBased"
    /\ result = NoResult
    /\ result' = [done |-> TRUE,
                  value |-> calculateTaxesNetBased(call.grossAmount,
                                call.vatRate, call.cityTaxRate,
                                call.cityTaxMode)]
    /\ UNCHANGED call
    /\ UNCHANGED <<taxVars, parseVars, emitVars, matchVars, storeVars>>

(***************************************************************************)
(* Invoice numbering.  The repository holds two files storage with one     *)
(* getNextInvoiceNumber each: getNextInvoiceNumber keeps a counter per     *)
(* property and year, getNextInvoiceNumberMonthly one per property, year   *)
(* and month, and numbers by the clock when NODE_ENV is production or the  *)
(* file cannot be written.  The calls of one batch are awaited one after   *)
(* the other.  build is the file in use; env is "development",             *)
(* "production", or "readonly" (development, the data directory cannot be  *)
(* written); issued is the list of the calls made and what they returned.  *)
(***************************************************************************)
Properties ==
    {[id |-> <<"a", "p", "t", "1">>,
      invoicePrefix |-> <<"A", "P", "T", "0", "1">>],
     [id |-> <<"d", "e", "f", "a", "u", "l", "t">>,
      invoicePrefix |-> <<"I", "N", "V">>]}

PropertyIds == {p.id : p \in Properties} \cup {<<"g", "o", "n", "e">>}

\* the lookup that gives the default property for an id of no property
getPropertyOrDefault(id) ==
    IF \E p \in Properties : p.id = id
    THEN CHOOSE p \in Properties : p.id = id
    ELSE CHOOSE p \in Properties : p.id = <<"d", "e", "f", "a", "u", "l", "t">>

\* properties.find(p => p.id === id) || null
getProperty(id) ==
    IF \E p \in Properties : p.id = id
    THEN CHOOSE p \in Properties : p.id = id
    ELSE [id |-> <<>>, invoicePrefix |-> <<>>]

\* counters[counterKey] || 0
CounterAt(file, counterKey) ==
    IF counterKey \in DOMAIN file THEN file[counterKey] ELSE 0

\* counters[counterKey] = nextCounter
WithCounter(file, counterKey, nextCounter) ==
    [k \in DOMAIN file \cup {counterKey} |->
        IF k = counterKey THEN nextCounter ELSE file[k]]

\* nextCounter.toString().padStart(3, '0')
PadStart3(n) ==
    IF n < 10 THEN <<"0", "0">> \o IntToString(n)
    ELSE IF n < 100 THEN <<"0">> \o IntToString(n)
    ELSE IntToString(n)

\* `${propertyId}-${currentYear}`
YearKey(propertyId, date) == propertyId \o <<"-">> \o IntToString(date.y)

\* `${propertyId}-${year}-${month}`
MonthKey(propertyId, date) ==
    YearKey(propertyId, date) \o <<"-">> \o PadStart2(date.m)

\* date.getTime().toString().slice(-3): the milliseconds of the clock
Timestamps == {<<"0", "0", "0">>, <<"0", "0", "1">>, <<"9", "9", "9">>}

\* what a call of getNextInvoiceNumber did
Issued(propertyId, number) ==
    [propertyId |-> propertyId, date |-> today, thrown |-> FALSE,
     number |-> number]

Rejected(propertyId) ==
    [propertyId |-> propertyId, date |-> today, thrown |-> TRUE,
     number |-> <<>>]

\* the counters file as a run finds it: missing, or left by earlier runs
CounterFiles(key(_, _)) ==
    {NoCounters}
    \cup {[k \in {key(p, Date(2024, 12, 31))} |-> n] :
            p \in {q.id : q \in Properties}, n \in {9, 998}}

InitStore ==
    /\ build \in {"yearly", "monthly"}
    /\ env \in {"development", "production", "readonly"}
    /\ today \in {Date(2024, 11, 30), Date(2024, 12, 31)}
    /\ counters \in (IF build = "yearly" THEN CounterFiles(YearKey)
                     ELSE CounterFiles(MonthKey))
    /\ issued = <<>>
    /\ inflight = <<>>
    /\ TaxIdle
    /\ ParseIdle
    /\ EmitIdle
    /\ MatchIdle
    /\ LibIdle

\* the clock passes into the next month
NewMonth ==
    /\ build # "none"
    /\ today.y = 2024
    /\ today' = IF today.m = 12 THEN Date(2025, 1, 1)
                ELSE Date(2024, today.m + 1, 1)
    /\ UNCHANGED <<build, env, counters, issued, inflight>>
    /\ UNCHANGED <<taxVars, parseVars, emitVars, matchVars, libVars>>

GetNextInvoiceNumber ==
    /\ build = "yearly"
    /\ Len(issued) < MaxCalls
    /\ \E propertyId \in PropertyIds :
         LET property == getProperty(propertyId)
             counterKey == YearKey(propertyId, today)
             nextCounter == CounterAt(counters, counterKey) + 1
         IN IF property.id = <<>> \/ env = "readonly"
            THEN \* no such property, or saveCounters rejects
                 /\ issued' = Append(issued, Rejected(propertyId))
                 /\ UNCHANGED counters
            ELSE /\ counters' = WithCounter(counters, counterKey, nextCounter)
                 /\ issued' =
                      Append(issued,
                             Issued(propertyId,
                                    property.invoicePrefix \o <<"-">>
                                    \o IntToString(today.y) \o <<"-">>
                                    \o PadStart3(nextCounter)))
    /\ UNCHANGED <<build, env, today, inflight>>
    /\ UNCHANGED <<taxVars, parseVars, emitVars, matchVars, libVars>>

GetNextInvoiceNumberMonthly ==
    /\ build = "monthly"
    /\ Len(issued) < MaxCalls
    /\ \E propertyId \in PropertyIds, timestamp \in Timestamps :
         LET property == getProperty(propertyId)
             stem == property.invoicePrefix \o <<"-">>
                     \o IntToString(today.y) \o <<"-">> \o PadStart2(today.m)
                     \o <<"-">>
             counterKey == MonthKey(propertyId, today)
             nextCounter == CounterAt(counters, counterKey) + 1
         IN IF property.id = <<>>
            THEN /\ issued' = Append(issued, Rejected(propertyId))
                 /\ UNCHANGED counters
            ELSE IF env # "development"
            THEN \* NODE_ENV is production, or saveCounters rejected
                 /\ issued' = Append(issued,
                                     Issued(propertyId, stem \o timestamp))
                 /\ UNCHANGED counters
            ELSE /\ counters' = WithCounter(counters, counterKey, nextCounter)
                 /\ issued' =
                      Append(issued,
                             Issued(propertyId,
                                    stem \o PadStart3(nextCounter)))
    /\ UNCHANGED <<build, env, today, inflight>>
    /\ UNCHANGED <<taxVars, parseVars, emitVars, matchVars, libVars>>

(***************************************************************************)
(* The property resolver called on a name, then on what it returned.       *)
(***************************************************************************)
\* the names of both tables as they are, in lower case and between blanks,
\* the codes, and names of no table
PropertyNames ==
    LET keys == {airbnbMapping[i][1] : i \in 1..Len(airbnbMapping)}
                \cup {propertyMapping[i][1] : i \in 1..Len(propertyMapping)}
        codes == {airbnbMapping[i][2] : i \in 1..Len(airbnbMapping)}
                 \cup {propertyMapping[i][2] : i \in 1..Len(propertyMapping)}
    IN keys \cup codes \cup {ToLowerCase(k) : k \in keys}
       \cup {<<" ">> \o k \o <<" ", " ">> : k \in keys}
       \cup {<<"K", "R", "A">>, <<"B", "M">>, <<"W", "A", "F", "G">>,
             <<"K", "L", "I", "E">>, <<>>, <<" ">>,
             <<" ", "H", "o", "t", "e", "l", " ", "S", "a", "c", "h", "e",
               "r", " ">>,
             <<"C", "i", "t", "y", " ", "C", "e", "n", "t", "e", "r">>}

InitResolve ==
    /\ \E name \in PropertyNames, source \in {SourceBooking, SourceAirBnB} :
          call = [fn |-> "getLocationShort", propertyName |-> name,
                  source |-> source]
    /\ result = NoResult
    /\ TaxIdle
    /\ ParseIdle
    /\ EmitIdle
    /\ MatchIdle
    /\ StoreIdle

GetLocationShort ==
    /\ call.fn = "getLocationShort"
    /\ result = NoResult
    /\ result' = [done |-> TRUE, again |-> FALSE,
                  value |-> getLocationShort(call.propertyName, call.source)]
    /\ UNCHANGED call
    /\ UNCHANGED <<taxVars, parseVars, emitVars, matchVars, storeVars>>

\* the resolver called on its own output
GetLocationShortAgain ==
    /\ call.fn = "getLocationShort"
    /\ result.done /\ ~result.again
    /\ result' = [done |-> TRUE, again |-> TRUE, first |-> result.value,
                  value |-> getLocationShort(result.value, call.source)]
    /\ UNCHANGED call
    /\ UNCHANGED <<taxVars, parseVars, emitVars, matchVars, storeVars>>

(***************************************************************************)
(* The tokenizers: a file text is cut into rows, a row into fields.        *)
(* parseBookingCSV cuts both with a character loop of its own;             *)
(* parseReservationsCSV joins the lines of a quoted field by counting      *)
(* quotes and parseBMDList splits at every line break, both then call      *)
(* parseCSVRow.  A call that throws for fewer than 2 rows yields no rows.  *)
(***************************************************************************)
\* currentRow.trim() pushed when it is not empty
PushRow(currentRow) ==
    IF Trim(currentRow) # <<>> THEN <<Trim(currentRow)>> ELSE <<>>

RECURSIVE BookingRows(_, _, _, _)
\* parseBookingCSV: the loop over the characters of csvContent
BookingRows(csvContent, i, currentRow, insideQuotes) ==
    IF i > Len(csvContent) THEN PushRow(currentRow)
    ELSE IF csvContent[i] = "\""
         THEN BookingRows(csvContent, i + 1, Append(currentRow, "\""),
                          ~insideQuotes)
    ELSE IF csvContent[i] = "\n" /\ ~insideQuotes
         THEN PushRow(currentRow)
              \o BookingRows(csvContent, i + 1, <<>>, insideQuotes)
    ELSE BookingRows(csvContent, i + 1, Append(currentRow, csvContent[i]),
                     insideQuotes)

\* currentValue.trim().replace(/['"]/g, '')
BookingValue(currentValue) == RemoveChars(Trim(currentValue), {"'", "\""})

RECURSIVE BookingValues(_, _, _, _)
\* parseBookingCSV: the loop over the characters of a row; the last value
\* is pushed only when it is not empty
BookingValues(row, j, currentValue, insideQuotesRow) ==
    IF j > Len(row)
    THEN (IF currentValue # <<>> THEN <<BookingValue(currentValue)>>
          ELSE <<>>)
    ELSE IF row[j] = "\""
         THEN BookingValues(row, j + 1, currentValue, ~insideQuotesRow)
    ELSE IF row[j] = "," /\ ~insideQuotesRow
         THEN <<BookingValue(currentValue)>>
              \o BookingValues(row, j + 1, <<>>, insideQuotesRow)
    ELSE BookingValues(row, j + 1, Append(currentValue, row[j]),
                       insideQuotesRow)

RECURSIVE ReservationRows(_, _, _)
\* parseReservationsCSV: the loop over csvContent.split('\n'); a row ends
\* with the line at which the count of its quotes is even
ReservationRows(lines, i, currentRow) ==
    IF i > Len(lines) THEN PushRow(currentRow)
    ELSE LET joined == IF currentRow # <<>>
                       THEN currentRow \o <<"\n">> \o lines[i]
                       ELSE lines[i]
             quoteCount == Len(SelectSeq(joined, LAMBDA c : c = "\""))
         IN IF quoteCount % 2 = 0 /\ Trim(joined) # <<>>
            THEN <<Trim(joined)>> \o ReservationRows(lines, i + 1, <<>>)
            ELSE ReservationRows(lines, i + 1, joined)

\* parseBMDList: csvContent.split('\n').map(row => row.trim())
\*                 .filter(row => row.length > 0)
BMDRows(csvContent) ==
    LET lines == Split(csvContent, "\n")
    IN SelectSeq([i \in 1..Len(lines) |-> Trim(lines[i])],
                 LAMBDA row : Len(row) > 0)

\* the rows of the file and the fields of each, none when the call throws
\* for fewer than 2 rows
TokenizeWith(fn, csvContent) ==
    LET rows == IF fn = "parseBookingCSV"
                THEN BookingRows(csvContent, 1, <<>>, FALSE)
                ELSE IF fn = "parseReservationsCSV"
                THEN ReservationRows(Split(csvContent, "\n"), 1, <<>>)
                ELSE BMDRows(csvContent)
        values(row) == IF fn = "parseBookingCSV"
                       THEN BookingValues(row, 1, <<>>, FALSE)
                       ELSE parseCSVRow(row, DetectDelimiter(rows[1]))
    IN IF Len(rows) < 2 THEN <<>>
       ELSE [i \in 1..Len(rows) |-> values(rows[i])]

\* the values of the fields of a data row: plain, with blanks around, with
\* an apostrophe, empty, with a comma, a semicolon, a line break inside
FieldValues ==
    {<<"a">>, <<" ", "b", " ">>, <<"O", "'", "B">>, <<>>, <<"c", ",", "d">>,
     <<"e", ";", "f">>, <<"g", "\n", "h">>}

\* a field as a CSV writer puts it: between quotes when it holds the
\* delimiter or a line break, or when the writer quotes every field
WrittenField(value, delimiter, quoteAll) ==
    IF quoteAll \/ \E i \in 1..Len(value) : value[i] \in {delimiter, "\n"}
    THEN <<"\"">> \o value \o <<"\"">>
    ELSE value

\* the text of a file of a header line and one data row
WrittenFile(values, delimiter, quoteAll) ==
    Join(<< Join(<< <<"h", "1">>, <<"h", "2">>, <<"h", "3">> >>,
                 <<delimiter>>),
            Join([i \in 1..Len(values) |->
                     WrittenField(values[i], delimiter, quoteAll)],
                 <<delimiter>>) >>,
         <<"\n">>)

InitTokenize ==
    /\ \E fn \in {"parseBookingCSV", "parseReservationsCSV", "parseBMDList"},
          values \in UNION {[1..k -> FieldValues] : k \in 1..MaxFields},
          delimiter \in {",", ";"}, quoteAll \in BOOLEAN :
          /\ fn = "parseBookingCSV" => delimiter = ","
          \* a blank line is no row
          /\ values # << <<>> >> \/ quoteAll
          /\ call = [fn |-> fn, values |-> values, delimiter |-> delimiter,
                     csvContent |-> WrittenFile(values, delimiter, quoteAll)]
    /\ result = NoResult
    /\ TaxIdle
    /\ ParseIdle
    /\ EmitIdle
    /\ MatchIdle
    /\ StoreIdle

ParseBookingCSV_tokenize ==
    /\ call.fn = "parseBookingCSV"
    /\ result = NoResult
    /\ result' = [done |-> TRUE,
                  value |-> TokenizeWith("parseBookingCSV", call.csvContent)]
    /\ UNCHANGED call
    /\ UNCHANGED <<taxVars, parseVars, emitVars, matchVars, storeVars>>

ParseReservationsCSV_tokenize ==
    /\ call.fn = "parseReservationsCSV"
    /\ result = NoResult
    /\ result' = [done |-> TRUE,
                  value |-> TokenizeWith("parseReservationsCSV", call.csvContent)]
    /\ UNCHANGED call
    /\ UNCHANGED <<taxVars, parseVars, emitVars, matchVars, storeVars>>

ParseBMDList_tokenize ==
    /\ call.fn = "parseBMDList"
    /\ result = NoResult
    /\ result' = [done |-> TRUE,
                  value |-> TokenizeWith("parseBMDList", call.csvContent)]
    /\ UNCHANGED call
    /\ UNCHANGED <<taxVars, parseVars, emitVars, matchVars, storeVars>>

(***************************************************************************)
(* The header mapper of parseCSV: the handler of the headers of the file.  *)
(***************************************************************************)
COLUMN_MAPPINGS ==
    <<
      <<"reservationId",
        <<<<"R", "e", "f", "e", "r", "e", "n", "c", "e", " ", "n", "u", "m",
            "b", "e", "r">>, <<"R", "e", "s", "e", "r", "v", "a", "t", "i",
            "o", "n", " ", "I", "D">>, <<"B", "o", "o", "k", "i", "n", "g",
            " ", "I", "D">>, <<"R", "e", "s", "e", "r", "v", "a", "t", "i",
            "o", "n", "I", "D">>, <<"B", "o", "o", "k", "i", "n", "g", "I",
            "D">>, <<"I", "D">>>>>>,
      <<"guestName",
        <<<<"G", "u", "e", "s", "t", " ", "n", "a", "m", "e">>, <<"G", "u",
            "e", "s", "t", " ", "N", "a", "m", "e">>, <<"G", "u", "e", "s",
            "t">>, <<"C", "u", "s", "t", "o", "m", "e", "r", " ", "N", "a",
            "m", "e">>, <<"C", "u", "s", "t", "o", "m", "e", "r">>, <<"N",
            "a", "m", "e">>>>>>,
      <<"checkInDate",
        <<<<"C", "h", "e", "c", "k", "-", "i", "n">>, <<"C", "h", "e", "c",
            "k", "-", "i", "n", " ", "D", "a", "t", "e">>, <<"A", "r", "r",
            "i", "v", "a", "l">>, <<"C", "h", "e", "c", "k", "I", "n">>,
            <<"C", "h", "e", "c", "k", " ", "I", "n", " ", "D", "a", "t",
            "e">>>>>>,
      <<"checkOutDate",
        <<<<"C", "h", "e", "c", "k", "o", "u", "t">>, <<"C", "h", "e", "c",
            "k", "-", "o", "u", "t", " ", "D", "a", "t", "e">>, <<"D", "e",
            "p", "a", "r", "t", "u", "r", "e">>, <<"C", "h", "e", "c", "k",
            "-", "o", "u", "t">>, <<"C", "h", "e", "c", "k", "O", "u", "t">>,
            <<"C", "h", "e", "c", "k", " ", "O", "u", "t", " ", "D", "a", "t",
            "e">>>>>>,
      <<"amountPaidGross",
        <<<<"A", "m", "o", "u", "n", "t">>, <<"G", "r", "o", "s", "s", " ",
            "A", "m", "o", "u", "n", "t">>, <<"T", "o", "t", "a", "l">>,
            <<"T", "o", "t", "a", "l", " ", "A", "m", "o", "u", "n", "t">>,
            <<"P", "r", "i", "c", "e">>, <<"G", "r", "o", "s", "s", " ", "P",
            "r", "i", "c", "e">>>>>>,
      <<"currency",
        <<<<"C", "u", "r", "r", "e", "n", "c", "y">>, <<"C", "u", "r", "r">>>>>>,
      <<"guestAddress",
        <<<<"A", "d", "d", "r", "e", "s", "s">>, <<"G", "u", "e", "s", "t",
            " ", "A", "d", "d", "r", "e", "s", "s">>, <<"C", "u", "s", "t",
            "o", "m", "e", "r", " ", "A", "d", "d", "r", "e", "s", "s">>>>>>,
      <<"country",
        <<<<"C", "o", "u", "n", "t", "r", "y">>, <<"G", "u", "e", "s", "t",
            " ", "C", "o", "u", "n", "t", "r", "y">>, <<"C", "u", "s", "t",
            "o", "m", "e", "r", " ", "C", "o", "u", "n", "t", "r", "y">>>>>>,
      <<"nights",
        <<<<"N", "i", "g", "h", "t", "s">>, <<"N", "u", "m", "b", "e", "r",
            " ", "o", "f", " ", "N", "i", "g", "h", "t", "s">>, <<"S", "t",
            "a", "y", " ", "D", "u", "r", "a", "t", "i", "o", "n">>>>>>
    >>

\* header.toLowerCase().trim() === possible.toLowerCase().trim()
SameColumnName(header, possible) ==
    Trim(ToLowerCase(header)) = Trim(ToLowerCase(possible))

\* the first header, in the order of the file, that a name matches
FirstHeaderNamed(headers, possibleNames) ==
    LET hits == {i \in 1..Len(headers) :
                   \E k \in 1..Len(possibleNames) :
                      SameColumnName(headers[i], possibleNames[k])}
    IN IF hits = {} THEN <<>>
       ELSE headers[CHOOSE i \in hits : \A j \in hits : i <= j]

\* the first header that any of the names matches, whichever name it is
findColumnNameInHeaderOrder(headers, possibleNames) ==
    FirstHeaderNamed(headers, possibleNames)

RECURSIVE findColumnName(_, _)
\* for (const possible of possibleNames): headers.find(...), returned when
\* found; null (here the empty text) at the end
findColumnName(headers, possibleNames) ==
    IF possibleNames = <<>> THEN <<>>
    ELSE LET found == FirstHeaderNamed(headers, <<Head(possibleNames)>>)
         IN IF found # <<>> THEN found
            ELSE findColumnName(headers, Tail(possibleNames))

\* columnMapping after the loop over Object.entries(COLUMN_MAPPINGS)
ColumnMappingOf(headers) ==
    LET foundColumn(i) == findColumnName(headers, COLUMN_MAPPINGS[i][2])
        fields == {i \in 1..Len(COLUMN_MAPPINGS) : foundColumn(i) # <<>>}
    IN [fieldName \in {COLUMN_MAPPINGS[i][1] : i \in fields} |->
          foundColumn(CHOOSE i \in fields : COLUMN_MAPPINGS[i][1] = fieldName)]

HeaderTexts ==
    {<<"g", "u", "e", "s", "t", " ", "N", "a", "m", "e", " ">>, <<"G", "u",
        "e", "s", "t">>, <<"N", "A", "M", "E">>, <<" ", "C", "u", "s", "t",
        "o", "m", "e", "r">>, <<"C", "h", "e", "c", "k", "-", "i", "n">>,
        <<"A", "R", "R", "I", "V", "A", "L">>, <<"A", "m", "o", "u", "n",
        "t">>, <<"t", "o", "t", "a", "l">>, <<"I", "D">>, <<"T", "y", "p",
        "e">>}

InitHeaders ==
    /\ \E k \in 1..MaxHeaders : \E headers \in [1..k -> HeaderTexts] :
          /\ \A i, j \in 1..k : i # j => headers[i] # headers[j]
          /\ call = [fn |-> "parseCSV.headers", headers |-> headers]
    /\ result = NoResult
    /\ TaxIdle
    /\ ParseIdle
    /\ EmitIdle
    /\ MatchIdle
    /\ StoreIdle

ParseCSV_onHeaders ==
    /\ call.fn = "parseCSV.headers"
    /\ result = NoResult
    /\ result' = [done |-> TRUE, value |-> ColumnMappingOf(call.headers)]
    /\ UNCHANGED call
    /\ UNCHANGED <<taxVars, parseVars, emitVars, matchVars, storeVars>>

(***************************************************************************)
(* Specifications.                                                         *)
(***************************************************************************)
NextTax == CalculateAccountingTaxes

SpecTax == InitTax /\ [][NextTax]_vars

NextParse ==
    \/ ParseCSV_onData
    \/ ParseCSV_onEnd
    \/ PayoutLib_onData
    \/ PayoutLib_onEnd
    \/ PayoutCSV_row
    \/ PayoutCSV_return
    \/ BookingCSV_row
    \/ BookingCSV_return
    \/ AirbnbCSV_row
    \/ AirbnbCSV_return

SpecParse == InitParse /\ [][NextParse]_vars

NextEmit ==
    \/ ConvertToUnifiedReservations
    \/ GenerateAccountingCSV_enter
    \/ GenerateAccountingCSV_reservation
    \/ GenerateAccountingCSV_return

SpecEmit == InitEmit /\ [][NextEmit]_vars

NextMatch ==
    \/ Post_parseBMDList
    \/ Post_parseReservationsCSV
    \/ Post_matchReservations
    \/ Post_respond

SpecMatch == InitMatch /\ [][NextMatch]_vars

NextInvoiceTax ==
    \/ CalculateTaxes
    \/ CalculateTaxesNetBased

SpecInvoiceTax == InitInvoiceTax /\ [][NextInvoiceTax]_vars

NextStore ==
    \/ NewMonth
    \/ GetNextInvoiceNumber
    \/ GetNextInvoiceNumberMonthly

SpecStore == InitStore /\ [][NextStore]_vars

NextResolve ==
    \/ GetLocationShort
    \/ GetLocationShortAgain

SpecResolve == InitResolve /\ [][NextResolve]_vars

NextTokenize ==
    \/ ParseBookingCSV_tokenize
    \/ ParseReservationsCSV_tokenize
    \/ ParseBMDList_tokenize

SpecTokenize == InitTokenize /\ [][NextTokenize]_vars

NextHeaders == ParseCSV_onHeaders

SpecHeaders == InitHeaders /\ [][NextHeaders]_vars

(***************************************************************************)
(* lib/csv-parser.ts parseDate on the text of a date cell.  A Date is the  *)
(* minutes since 1970-01-01T00:00Z (a day has 1440), or invalid; tz is the *)
(* offset of the process time zone, in minutes east of UTC.                *)
(***************************************************************************)
InvalidDateObject == [valid |-> FALSE, time |-> 0]

\* n.toString().padStart(width, '0')
ZeroPad(n, width) ==
    LET s == IntToString(n)
    IN [i \in 1..(width - Len(s)) |-> "0"] \o s

\* new Date(year, monthIndex, day): midnight of that day in local time; a
\* month or a day out of range carries over, a year 0..99 is 1900 + year
LocalDate(year, monthIndex, day, tz) ==
    LET fullYear == IF year >= 0 /\ year <= 99 THEN 1900 + year ELSE year
        months == fullYear * 12 + monthIndex
        firstOfMonth == GetTime(Date(months \div 12, (months % 12) + 1, 1))
    IN [valid |-> TRUE, time |-> (firstOfMonth + day - 1) * 1440 - tz]

\* date.toISOString().split('T')[0]
ISODateString(date) ==
    LET dt == ToISODate(date.time \div 1440)
    IN ZeroPad(dt.y, 4) \o <<"-">> \o ZeroPad(dt.m, 2) \o <<"-">> \o ZeroPad(dt.d, 2)

\* /^\d{4}-\d{2}-\d{2}$/
IsISOFormat(s) ==
    /\ Len(s) = 10 /\ s[5] = "-" /\ s[8] = "-"
    /\ AllDigits(SubSeq(s, 1, 4) \o SubSeq(s, 6, 7) \o SubSeq(s, 9, 10))

\* /^\d{2}\/\d{2}\/\d{4}$/ and /^\d{2}\.\d{2}\.\d{4}$/
IsDayFirstFormat(s, sep) ==
    /\ Len(s) = 10 /\ s[3] = sep /\ s[6] = sep
    /\ AllDigits(SubSeq(s, 1, 2) \o SubSeq(s, 4, 5) \o SubSeq(s, 7, 10))

MonthNames ==
    << <<"j", "a", "n">>, <<"f", "e", "b">>, <<"m", "a", "r">>,
       <<"a", "p", "r">>, <<"m", "a", "y">>, <<"j", "u", "n">>,
       <<"j", "u", "l">>, <<"a", "u", "g">>, <<"s", "e", "p">>,
       <<"o", "c", "t">>, <<"n", "o", "v">>, <<"d", "e", "c">> >>

\* /^\d{1,2}\s+\w{3}\s+\d{4}$/ for words separated by one blank
IsDayMonthNameFormat(s) ==
    LET words == Split(s, " ")
    IN /\ Len(words) = 3
       /\ Len(words[1]) \in {1, 2} /\ AllDigits(words[1])
       /\ Len(words[2]) = 3
       /\ Len(words[3]) = 4 /\ AllDigits(words[3])

\* new Date(text) for the texts no pattern of parseDate takes and for
\* "D MMM YYYY": day 1..31 of the named month at local midnight, carried
\* over as V8 does, else invalid.
\* (The texts of the model it is given are "30 Jun 2025" and "n/a".)
NativeDate(text, tz) ==
    IF ~IsDayMonthNameFormat(text) THEN InvalidDateObject
    ELSE LET words == Split(text, " ")
             day == DigitsValue(words[1])
             name == ToLowerCase(words[2])
         IN IF day >= 1 /\ day <= 31 /\ \E i \in 1..12 : MonthNames[i] = name
            THEN LocalDate(DigitsValue(words[3]),
                           (CHOOSE i \in 1..12 : MonthNames[i] = name) - 1, day, tz)
            ELSE InvalidDateObject

Returned(value) == [threw |-> FALSE, value |-> value]

\* throw new Error(`Invalid date format: ${dateString}`)
InvalidDateFormat == [threw |-> TRUE, value |-> <<>>]

parseDateString(dateString, tz) ==
    LET cleaned == Trim(dateString)
        parts(sep) == Split(cleaned, sep)
        dayFirst(sep) == LocalDate(DigitsValue(parts(sep)[3]),
                                   DigitsValue(parts(sep)[2]) - 1,
                                   DigitsValue(parts(sep)[1]), tz)
        date == IF IsDayFirstFormat(cleaned, "/") THEN dayFirst("/")
                ELSE IF IsDayFirstFormat(cleaned, ".") THEN dayFirst(".")
                ELSE NativeDate(cleaned, tz)
    IN IF dateString = <<>> THEN Returned(<<>>)
       ELSE IF IsISOFormat(cleaned) THEN Returned(cleaned)
       ELSE IF IsDayMonthNameFormat(cleaned) /\ NativeDate(cleaned, tz).valid
       THEN Returned(ISODateString(NativeDate(cleaned, tz)))
       ELSE IF ~date.valid THEN InvalidDateFormat
       ELSE Returned(ISODateString(date))

\* the texts of the date cells: DD/MM/YYYY and DD.MM.YYYY over these days,
\* months and years, and one text of each other kind
DayTexts == {<<"0", "0">>, <<"0", "1">>, <<"1", "2">>, <<"2", "8">>,
             <<"2", "9">>, <<"3", "0">>, <<"3", "1">>, <<"3", "2">>}

MonthTexts == {<<"0", "0">>, <<"0", "1">>, <<"0", "2">>, <<"0", "6">>,
               <<"1", "2">>, <<"1", "3">>}

YearTexts == {<<"2", "0", "2", "4">>, <<"2", "0", "2", "5">>}

DateTexts ==
    {d \o <<sep>> \o mo \o <<sep>> \o y :
        d \in DayTexts, mo \in MonthTexts, y \in YearTexts, sep \in {"/", "."}}
    \cup {<<>>,
          <<"n", "/", "a">>,
          <<"2", "0", "2", "5", "-", "0", "6", "-", "3", "0">>,
          <<"3", "0", " ", "J", "u", "n", " ", "2", "0", "2", "5">>,
          <<" ", "3", "0", "/", "0", "6", "/", "2", "0", "2", "5", " ">>}

\* the offsets of UTC, of Europe/Vienna (winter, summer) and of
\* America/New_York (winter), in minutes east of UTC
TimeZoneOffsets == {0, 60, 120, -300}

InitDates ==
    /\ call \in [fn : {"parseDate"}, dateString : DateTexts, tz : TimeZoneOffsets]
    /\ result = NoResult
    /\ TaxIdle
    /\ ParseIdle
    /\ EmitIdle
    /\ MatchIdle
    /\ StoreIdle

ParseDate ==
    /\ call.fn = "parseDate"
    /\ result = NoResult
    /\ LET r == parseDateString(call.dateString, call.tz)
       IN result' = [done |-> TRUE, threw |-> r.threw, value |-> r.value]
    /\ UNCHANGED call
    /\ UNCHANGED <<taxVars, parseVars, emitVars, matchVars, storeVars>>

NextDates == ParseDate

SpecDates == InitDates /\ [][NextDates]_vars

(***************************************************************************)
(* Calls of a numbering function that run at once against the one counters *)
(* file: getNextInvoiceNumber of the yearly build, or incrementCounter of  *)
(* lib/settings-service.ts, whose counters of a property and a year are    *)
(* kept under the key of the yearly build.  Each call awaits the read of   *)
(* the file, then, after its synchronous increment, the write of the whole *)
(* object it read; other calls run while it awaits.  Of a call, pc is      *)
(* "start", "read", then "returned" or "thrown"; seen is the object read.  *)
(***************************************************************************)
\* counter.toString().padStart(6, '0')
PadStart6(n) ==
    LET s == IntToString(n)
    IN [i \in 1..(6 - Len(s)) |-> "0"] \o s

\* the invoice number of a call of the build for the counter it wrote
InvoiceNumberOf(property, nextCounter) ==
    property.invoicePrefix \o <<"-">> \o IntToString(today.y) \o <<"-">>
    \o (IF build = "settings" THEN PadStart6(nextCounter)
        ELSE PadStart3(nextCounter))

InitRace ==
    /\ build \in {"yearly", "settings"}
    /\ env = "development"
    /\ today = Date(2024, 12, 31)
    /\ counters \in CounterFiles(YearKey)
    /\ issued = <<>>
    /\ inflight \in [1..MaxInflight ->
                        [pc : {"start"}, propertyId : PropertyIds,
                         seen : {NoCounters}, number : {<<>>}]]
    /\ TaxIdle
    /\ ParseIdle
    /\ EmitIdle
    /\ MatchIdle
    /\ LibIdle

\* const counters = await getCounters() / const settings = await loadSettings()
ReadCounters(p) ==
    /\ inflight[p].pc = "start"
    /\ inflight' = [inflight EXCEPT ![p].pc = "read", ![p].seen = counters]
    /\ UNCHANGED <<build, env, today, counters, issued>>
    /\ UNCHANGED <<taxVars, parseVars, emitVars, matchVars, libVars>>

\* the rest of the call: the property is looked up, the counter of the object
\* read is incremented, the object is written and the number returned
WriteCounters(p) ==
    /\ inflight[p].pc = "read"
    /\ LET propertyId == inflight[p].propertyId
           property == getProperty(propertyId)
           counterKey == YearKey(propertyId, today)
           nextCounter == CounterAt(inflight[p].seen, counterKey) + 1
       IN IF property.id = <<>>
          THEN /\ inflight' = [inflight EXCEPT ![p].pc = "thrown"]
               /\ issued' = Append(issued, Rejected(propertyId))
               /\ UNCHANGED counters
          ELSE /\ counters' = WithCounter(inflight[p].seen, counterKey,
                                          nextCounter)
               /\ inflight' =
                    [inflight EXCEPT
                        ![p].pc = "returned",
                        ![p].number = InvoiceNumberOf(property, nextCounter)]
               /\ issued' =
                    Append(issued,
                           Issued(propertyId,
                                  InvoiceNumberOf(property, nextCounter)))
    /\ UNCHANGED <<build, env, today>>
    /\ UNCHANGED <<taxVars, parseVars, emitVars, matchVars, libVars>>

NextRace ==
    \/ \E p \in 1..MaxInflight : ReadCounters(p)
    \/ \E p \in 1..MaxInflight : WriteCounters(p)

SpecRace == InitRace /\ [][NextRace]_vars

\* x + y
Add(x, y) ==
    IF x.nan \/ y.nan THEN NaN
    ELSE LET e == IF x.e > y.e THEN x.e ELSE y.e
         IN Num(x.m * Pow10(e - x.e) + y.m * Pow10(e - y.e), e)

\* the amount of a valid row of the parser at work
AmountOf(row) ==
    IF parser \in {"parseCSV", "payoutLib"} THEN row.amountPaidGross
    ELSE IF parser = "airbnbCSV" THEN row.earnings
    ELSE row.totalPayment

C2_ValidAmountPositive ==
    \A i \in 1..Len(validRows) : Gt0(AmountOf(validRows[i]))

(***************************************************************************)
(* C3: every row excluded because its coerced amount is <= 0 is reported   *)
(* in invalidRows together with a reason; none is dropped without an entry. *)
(***************************************************************************)
C3_NonPositiveReported ==
    \A i \in 1..Len(fates) :
        fates[i].why = "amount" =>
            /\ fates[i].outcome = "invalid"
            /\ \E k \in 1..Len(invalidRows) :
                 invalidRows[k].row = fileRows[i] /\ invalidRows[k].errors # <<>>

(***************************************************************************)
(* C4: the k-th reservation handed to generateAccountingCSV gets the       *)
(* voucher number startBelegnr + k - 1; its three rows carry that number,  *)
(* and the counter advances once per reservation.                          *)
(***************************************************************************)
C4_VoucherNumbering ==
    /\ \A i \in 1..Len(accountingRows) :
         LET k == ((i - 1) \div 3) + 1
         IN /\ accountingRows[i].belegnr = IntToString(startBelegnr + k - 1)
            /\ accountingRows[i].belegdat = formatDate(unified[k].departure)
    /\ epc \in {"emitting", "returned", "thrown_date"} =>
         currentBelegnr = startBelegnr + (Len(accountingRows) \div 3)
    /\ epc = "returned" => Len(accountingRows) = 3 * Len(unified)

\* an export of three reservations whose numbers grow by a digit
C4_Witness ==
    /\ epc = "returned"
    /\ Len(unified) = 3
    /\ startBelegnr = 998
    /\ accountingRows[9].belegnr = <<"1", "0", "0", "0">>

\* the number an amount cell of the CSV stands for
CellValue(cell) == ParseFloat(ReplaceFirst(cell, ",", "."))

\* the number of lines of a text
LineCount(text) == Len(SelectSeq(text, LAMBDA c : c = "\n")) + 1

Merged == Map(FromBooking, bookingRows) \o Map(FromAirbnb, airbnbRows)

\* how often x occurs in seq
Occurrences(seq, x) == Cardinality({i \in 1..Len(seq) : seq[i] = x})

(***************************************************************************)
(* C6: in the emitted CSV the reservation with the earlier departure date  *)
(* carries the smaller voucher number; the list the emitter goes through   *)
(* holds the merged Booking and Airbnb rows, none lost, none duplicated.   *)
(***************************************************************************)
C6_VouchersInDepartureOrder ==
    /\ epc = "returned" =>
         \A i, j \in 1..Len(accountingRows) :
            DigitsValue(accountingRows[i].belegdat)
              < DigitsValue(accountingRows[j].belegdat)
            => DigitsValue(accountingRows[i].belegnr)
                 < DigitsValue(accountingRows[j].belegnr)
    /\ epc \notin {"idle", "start"} =>
         /\ Len(unified) = Len(Merged)
         /\ \A i \in 1..Len(Merged) :
              Occurrences(unified, Merged[i]) = Occurrences(Merged, Merged[i])

\* an export whose merged list was not in departure order
C6_Witness ==
    /\ epc = "returned"
    /\ Len(unified) >= 2
    /\ unified # Merged
    /\ \E i \in 1..(Len(Merged) - 1) :
         GetTime(Merged[i].departure) > GetTime(Merged[i + 1].departure)

(***************************************************************************)
(* C7 as stated: a parse call given at least one data row never throws,    *)
(* whatever the rows hold; only a file with fewer than 2 rows throws.      *)
(***************************************************************************)
C7_ThrowsOnlyOnStructure ==
    ppc \in {"thrown_structure", "thrown_novalid"} => rowCount = 0

(***************************************************************************)
(* C7 amended: a bad row never ends the call (every row read is handled    *)
(* and the call ends only at the end of the file); a call throws only for  *)
(* a file with fewer than 2 rows or, in parseBookingCSV and                *)
(* parseAirbnbCSV, for a file none of whose data rows is valid; with at    *)
(* least one valid row the call returns.                                   *)
(***************************************************************************)
C7_ThrowsOnlyOnFileLevel ==
    /\ ppc \in {"running", "returned", "thrown_structure", "thrown_novalid"}
    /\ Len(fates) = rowCount
    /\ ppc = "thrown_structure" => rowCount = 0
    /\ ppc = "thrown_novalid" =>
         /\ parser \in {"bookingCSV", "airbnbCSV"}
         /\ rowCount >= 1
         /\ \A i \in 1..Len(fates) : fates[i].outcome # "valid"

\* a call that returned although a bad row came before a valid one
C7_Witness ==
    /\ ppc = "returned"
    /\ parser \in {"bookingCSV", "airbnbCSV"}
    /\ \E i, j \in 1..Len(fates) :
         i < j /\ fates[i].outcome = "dropped" /\ fates[j].outcome = "valid"

\* matchReservations has returned
Matched == mpc = "matched" \/ (mpc = "responded" /\ response.status = 200)

(***************************************************************************)
(* C8: every valid reservation of the Booking payout normalizer comes from *)
(* a row whose Type is "Reservation" and whose Reservation status is "ok", *)
(* with or without a target month.                                        *)
(***************************************************************************)
C8_OnlyOkReservations ==
    parser \in {"payoutLib", "payoutCSV"} =>
        \A i \in 1..Len(fates) :
            fates[i].outcome = "valid" =>
                fileRows[i].Type = TypeReservation /\ fileRows[i].status = "ok"
(***************************************************************************)
(* C9: when no ledger entry carries an extracted reservation number, the   *)
(* matcher pairs the i-th ledger entry with the i-th reservation, in input *)
(* order, for i up to the smaller of the two counts, and emits exactly     *)
(* that many records; the surplus on either side yields no record.         *)
(***************************************************************************)
C9_SequentialPairing ==
    (Matched /\ \A i \in 1..Len(bmdEntries) : bmdEntries[i].reservationNumber = <<>>)
    => /\ Len(mergedData) = (IF Len(bmdEntries) < Len(reservations)
                             THEN Len(bmdEntries) ELSE Len(reservations))
       /\ \A i \in 1..Len(mergedData) :
            /\ mergedData[i].invoiceNumber = bmdEntries[i].belegnr
            /\ mergedData[i].amountPaidGross = bmdEntries[i].bruttoAmount
            /\ mergedData[i].reservationId = reservations[i].reservationNumber
            /\ mergedData[i].guestName = reservations[i].bookerName
            /\ mergedData[i].checkOutDate = reservations[i].departure
       /\ mpc = "responded" => response.validRows = mergedData

\* two ledger entries without number paired with two different reservations
C9_Witness ==
    /\ mpc = "responded"
    /\ response.status = 200
    /\ Len(bmdEntries) = 2
    /\ \A i \in 1..2 : bmdEntries[i].reservationNumber = <<>>
    /\ Len(reservations) = 2
    /\ reservations[1].reservationNumber # reservations[2].reservationNumber
    /\ Len(response.validRows) = 2

\* the ledger entries with an extracted reservation number, in order
Numbered == SelectSeq(bmdEntries, LAMBDA e : e.reservationNumber # <<>>)

\* some reservation carries the number of the entry
IsHit(entry) ==
    \E i \in 1..Len(reservations) :
        reservations[i].reservationNumber = entry.reservationNumber

\* the records of direct matching, the guest of a miss being the
\* placeholder in every case or only when the ledger holds no guest name
DirectRecords(placeholderOnMiss) ==
    (Matched /\ Numbered # <<>>)
    => /\ Len(mergedData) = Len(Numbered)
       /\ \A k \in 1..Len(mergedData) :
            /\ mergedData[k].amountPaidGross = Numbered[k].bruttoAmount
            /\ mergedData[k].invoiceNumber = Numbered[k].belegnr
            /\ mergedData[k].reservationId = Numbered[k].reservationNumber
            /\ IF IsHit(Numbered[k])
               THEN \E i \in 1..Len(reservations) :
                      /\ reservations[i].reservationNumber
                           = Numbered[k].reservationNumber
                      /\ mergedData[k].guestName = reservations[i].bookerName
                      /\ mergedData[k].checkInDate = reservations[i].arrival
                      /\ mergedData[k].checkOutDate = reservations[i].departure
                      /\ mergedData[k].property = reservations[i].propertyName
               ELSE /\ mergedData[k].checkOutDate = Numbered[k].checkoutDate
                    /\ mergedData[k].guestName =
                         IF placeholderOnMiss \/ Numbered[k].guestName = <<>>
                         THEN UnknownGuest
                         ELSE Numbered[k].guestName

Answered == mpc = "responded" /\ response.status = 200

\* a ledger entry with a number that no reservation carries, a ledger entry
\* without a number beside numbered ones, or, in sequential pairing, a
\* surplus ledger entry or a surplus reservation
Degraded ==
    IF Numbered # <<>>
    THEN \/ \E i \in 1..Len(Numbered) : ~IsHit(Numbered[i])
         \/ Len(Numbered) < Len(bmdEntries)
    ELSE Len(bmdEntries) # Len(reservations)

(***************************************************************************)
(* C11: whenever the answer of the ledger+reservations parse is degraded   *)
(* (an unmatched ledger entry, an entry without a number beside numbered   *)
(* ones, a surplus entry or reservation in sequential pairing), its        *)
(* summary differs from the summary of the same ledger fully matched: the  *)
(* degraded entries are counted in summary.invalid, or summary.total is    *)
(* not the count of valid rows, or not the count of ledger entries.        *)
(***************************************************************************)
C11_DegradationInSummary ==
    (Answered /\ Degraded) =>
        \/ response.summary.invalid > 0
        \/ response.summary.total # response.summary.valid
        \/ response.summary.total # Len(bmdEntries)

\* cell is an amount of the form [-]d+Xdd, X being the separator
TwoDecimals(cell, separator) ==
    LET digits == IF StartsWith(cell, "-") THEN Tail(cell) ELSE cell
        n == Len(digits)
    IN /\ n >= 4
       /\ AllDigits(SubSeq(digits, 1, n - 3))
       /\ digits[n - 2] = separator
       /\ AllDigits(SubSeq(digits, n - 1, n))

InCents(x) == x.m * Pow10(2 - x.e)

\* x is the number of cents nearest to n / d, a tie going up
NearestCents(x, n, d) ==
    LET a == InCents(x) * d - n
    IN x.e <= 2 /\ -((d - 1) \div 2) <= a /\ a <= d \div 2

(***************************************************************************)
(* C13: calculateTaxes returns net = round2(gross / (1 + vatRate)),        *)
(* vat = round2(gross - gross / (1 + vatRate)), cityTax = round2(gross *   *)
(* cityTaxRate) in SIMPLE mode and round2(gross / (1 + vatRate) *          *)
(* cityTaxRate) in VIENNA_METHOD mode, total = round2(gross + cityTax):    *)
(* each output is the number of cents nearest to the exact figure, the     *)
(* city tax comes on top of the gross, and no output is adjusted to the    *)
(* others.                                                                 *)
(***************************************************************************)
C13_FormulaB ==
    (call.fn \in {"calculateTaxes", "calculateTaxesNetBased"} /\ result.done)
    =>
    LET S == Pow10(call.grossAmount.e)
        m == call.grossAmount.m
        v == PerMille(call.vatRate)
        c == PerMille(call.cityTaxRate)
        out == result.value
    IN  \* 100 * net = 100000 m / ((1000 + v) S)
        /\ NearestCents(out.netAmount, 100000 * m, (1000 + v) * S)
        \* 100 * vat = 100 m v / ((1000 + v) S)
        /\ NearestCents(out.vatAmount, 100 * m * v, (1000 + v) * S)
        /\ IF call.cityTaxMode = "SIMPLE"
           THEN /\ NearestCents(out.cityTaxAmount, m * c, 10 * S)
                /\ NearestCents(out.totalAmount, m * (1000 + c), 10 * S)
           ELSE /\ NearestCents(out.cityTaxAmount, 100 * m * c,
                                (1000 + v) * S)
                /\ NearestCents(out.totalAmount, 100 * m * (1000 + v + c),
                                (1000 + v) * S)

\* the call that has just returned a number, when a step is such a call
JustIssued == issued'[Len(issued')]

(***************************************************************************)
(* C14: every call of getNextInvoiceNumber that returns, for a property in *)
(* a year, returns PREFIX-YYYY-NNN where NNN is the persisted counter of   *)
(* that property and year plus 1 (1 when there is none yet: a first call,  *)
(* a new year, another property), padded with zeros to at least 3 digits   *)
(* and never truncated, and leaves that counter grown by exactly 1.        *)
(***************************************************************************)
C14_InvoiceNumbering ==
    [][(Len(issued') = Len(issued) + 1 /\ ~JustIssued.thrown) =>
        LET counterKey == YearKey(JustIssued.propertyId, JustIssued.date)
            expected == CounterAt(counters, counterKey) + 1
            parts == Split(JustIssued.number, "-")
        IN /\ Len(parts) = 3
           /\ parts[1] = getProperty(JustIssued.propertyId).invoicePrefix
           /\ parts[2] = IntToString(JustIssued.date.y)
           /\ AllDigits(parts[3])
           /\ DigitsValue(parts[3]) = expected
           /\ Len(parts[3]) >= 3
           /\ Len(parts[3]) > 3 => parts[3][1] # "0"
           /\ CounterAt(counters', counterKey) = expected]_vars

Tokenized ==
    /\ call.fn \in {"parseBookingCSV", "parseReservationsCSV", "parseBMDList"}
    /\ result.done

(***************************************************************************)
(* C16: for a CSV text whose quoted fields hold delimiters (comma or       *)
(* semicolon) or line breaks, the tokenizer yields one row per logical     *)
(* line (here the header and the data row: a line break between quotes     *)
(* ends no row) and, for each row, exactly the field values that were      *)
(* written, trimmed and without their surrounding quotes.                  *)
(***************************************************************************)
C16_TokenizeRoundTrip ==
    Tokenized =>
        /\ Len(result.value) = 2
        /\ result.value[1] = << <<"h", "1">>, <<"h", "2">>, <<"h", "3">> >>
        /\ result.value[2]
             = [i \in 1..Len(call.values) |-> Trim(call.values[i])]

(***************************************************************************)
(* C17: a canonical field is in the column mapping exactly when some       *)
(* header equals one of its spellings after lower-casing and trimming      *)
(* both; it is then mapped to a header that equals the first declared      *)
(* spelling that any header equals; a field no header matches is absent    *)
(* from the mapping and raises no error.                                   *)
(***************************************************************************)
C17_HeaderMapping ==
    (call.fn = "parseCSV.headers" /\ result.done) =>
        \A f \in 1..Len(COLUMN_MAPPINGS) :
           LET fieldName == COLUMN_MAPPINGS[f][1]
               spellings == COLUMN_MAPPINGS[f][2]
               SpellingMatches(k) == \E i \in 1..Len(call.headers) :
                               SameColumnName(call.headers[i], spellings[k])
           IN /\ fieldName \in DOMAIN result.value
                   <=> \E k \in 1..Len(spellings) : SpellingMatches(k)
              /\ fieldName \in DOMAIN result.value =>
                   \E k \in 1..Len(spellings) :
                      /\ SameColumnName(result.value[fieldName], spellings[k])
                      /\ \E i \in 1..Len(call.headers) :
                            call.headers[i] = result.value[fieldName]
                      /\ \A j \in 1..(k - 1) : ~SpellingMatches(j)

\* the headers "NAME", "guest Name " and no header of a date: the guest
\* name is the second column, whose spelling is declared first
C17_Witness ==
    /\ call.fn = "parseCSV.headers" /\ result.done
    /\ Len(call.headers) >= 2
    /\ call.headers[1] = <<"N", "A", "M", "E">>
    /\ call.headers[2] = <<"g", "u", "e", "s", "t", " ", "N", "a", "m", "e",
                           " ">>
    /\ result.value["guestName"] = call.headers[2]
    /\ "checkInDate" \notin DOMAIN result.value

(***************************************************************************)
(* C18: in the payout parser and in the generic Booking parser a data row  *)
(* whose Type is another text than "Reservation", or whose reservation     *)
(* status is not the accepted "ok", is recorded in invalidRows with a      *)
(* reason; it is neither dropped without a record nor appended to the      *)
(* valid rows.                                                             *)
(***************************************************************************)
FilteredOut(rawRow) ==
    \/ rawRow.Type # <<>> /\ rawRow.Type # TypeReservation
    \/ rawRow.status # "ok"

C18_FilterReporting ==
    parser \in {"parseCSV", "payoutLib"} =>
        \A i \in 1..Len(fileRows) :
           FilteredOut(fileRows[i]) =>
              /\ fates[i].outcome = "invalid"
              /\ \E j \in 1..Len(invalidRows) :
                    /\ invalidRows[j].row = fileRows[i]
                    /\ invalidRows[j].errors # <<>>

(***************************************************************************)
(* C19: among the rows a parser rejected on account of their Amount cell,  *)
(* a row whose amount text is not a number and a row whose amount is a     *)
(* number that is zero or negative never carry the same invalidRows        *)
(* reason: the failure to parse and the skip by policy are told apart.     *)
(***************************************************************************)
\* the row passed the Type filter and is acceptable in every other cell but,
\* possibly, the Amount
RejectedForAmount(rawRow) ==
    rawRow = [BasePayoutRow EXCEPT !.Type = rawRow.Type, !.amount = rawRow.amount]

AmountNotNumeric(text) ==
    ParseFloat(Trim(RemoveChars(text, {"€", "$", "£", "¥", "₹", ","}))).nan

AmountNotPositive(text) ==
    LET amount == ParseFloat(Trim(RemoveChars(text, {"€", "$", "£", "¥", "₹", ","})))
    IN ~amount.nan /\ amount.m <= 0

C19_ReasonsToldApart ==
    parser \in {"parseCSV", "payoutLib"} =>
        \A j, k \in 1..Len(invalidRows) :
           (/\ RejectedForAmount(invalidRows[j].row)
            /\ RejectedForAmount(invalidRows[k].row)
            /\ AmountNotNumeric(invalidRows[j].row.amount)
            /\ AmountNotPositive(invalidRows[k].row.amount))
              => invalidRows[j].errors # invalidRows[k].errors

(***************************************************************************)
(* C20: for a text DD/MM/YYYY or DD.MM.YYYY that names a day of the        *)
(* calendar, parseDate returns YYYY-MM-DD with that same day, month and    *)
(* year: the first number is the day, and the day is not moved to a        *)
(* neighbouring one; for a text of these forms that names no day of the    *)
(* calendar, and for a text that is no date at all, parseDate throws.      *)
(***************************************************************************)
DaysInMonth(y, m) ==
    IF m = 2
    THEN (IF y % 4 = 0 /\ (y % 100 # 0 \/ y % 400 = 0) THEN 29 ELSE 28)
    ELSE IF m \in {4, 6, 9, 11} THEN 30 ELSE 31

RealCalendarDate(y, m, d) == m \in 1..12 /\ d \in 1..DaysInMonth(y, m)

C20_DayFirstDates ==
    (call.fn = "parseDate" /\ result.done) =>
        LET text == Trim(call.dateString)
            dd == SubSeq(text, 1, 2)
            mm == SubSeq(text, 4, 5)
            yyyy == SubSeq(text, 7, 10)
        IN /\ \A sep \in {"/", "."} :
                IsDayFirstFormat(text, sep) =>
                   IF RealCalendarDate(DigitsValue(yyyy), DigitsValue(mm),
                                       DigitsValue(dd))
                   THEN /\ ~result.threw
                        /\ result.value = yyyy \o <<"-">> \o mm \o <<"-">> \o dd
                   ELSE result.threw
           /\ text = <<"n", "/", "a">> => result.threw

(***************************************************************************)
(* C21: in a request whose reservation rows are all kept, a merged record  *)
(* carries the check-in and the check-out of the row of its reservation    *)
(* where the row has them; where the row has no check-in, the check-in of  *)
(* the record is the day before its check-out; the record of a ledger      *)
(* entry without reservation has the voucher date of the entry as          *)
(* check-out and the day before it as check-in.                            *)
(***************************************************************************)
C21_MatcherDates ==
    (Matched /\ Len(reservations) = Len(reservationRows)) =>
        \A k \in 1..Len(mergedData) :
           LET rec == mergedData[k]
               found == IF Numbered # <<>>
                        THEN {i \in 1..Len(reservations) :
                                reservations[i].reservationNumber
                                    = rec.reservationId}
                        ELSE {k}
           IN IF found = {}
              THEN /\ rec.checkOutDate = Numbered[k].checkoutDate
                   /\ rec.checkInDate = ToISODate(GetTime(rec.checkOutDate) - 1)
              ELSE \E i \in found :
                     LET row == reservationRows[i]
                     IN /\ ~InvalidDate(row.checkOut)
                             => rec.checkOutDate = row.checkOut
                        /\ ~InvalidDate(row.checkIn)
                             => rec.checkInDate = row.checkIn
                        /\ row.checkIn = NoDate
                             => rec.checkInDate
                                  = ToISODate(GetTime(rec.checkOutDate) - 1)

\* the partial matches of the Booking.com names, in the order of the code
BookingKeywords ==
    << <<"v", "i", "e", "n", "n", "a", " ", "c", "e", "n", "t", "r", "a", "l">>,
       <<"s", "t", "a", "t", "e", " ", "o", "p", "e", "r", "a">>,
       <<"l", "e", "o", "p", "o", "l", "d">>,
       <<"s", "t", "e", "p", "h", "a", "n", "s", "d", "o", "m", " ", "i", "i">>,
       <<"s", "t", "e", "p", "h", "a", "n", "s", "d", "o", "m">>,
       <<"m", "a", "r", "g", "o", "t">>,
       <<"d", "e", "n", "u", "b", "e">>,
       <<"c", "é", "l", "e", "s", "t", "e">>,
       <<"c", "e", "l", "e", "s", "t", "e">> >>

\* the text s holds the text sub
Holds(s, sub) ==
    \E i \in 1..(Len(s) - Len(sub) + 1) :
       \A j \in 1..Len(sub) : s[i + j - 1] = sub[j]

CounterAtStart(counterKey) ==
    LET seenBy == {CounterAt(inflight[p].seen, counterKey) :
                     p \in {q \in DOMAIN inflight : inflight[q].pc # "start"}}
    IN CHOOSE n \in seenBy : \A o \in seenBy : n <= o

(***************************************************************************)
(* C23: when two calls of the numbering function for the same property and *)
(* year, run at once in whatever order of their reads and writes, have     *)
(* both returned, they have returned different invoice numbers and the     *)
(* counter in the file is 2 higher than it was before the calls.           *)
(***************************************************************************)
C23_NoLostUpdate ==
    \A p, q \in DOMAIN inflight :
       (/\ p # q
        /\ inflight[p].pc = "returned" /\ inflight[q].pc = "returned"
        /\ inflight[p].propertyId = inflight[q].propertyId)
       => LET counterKey == YearKey(inflight[p].propertyId, today)
          IN /\ inflight[p].number # inflight[q].number
             /\ CounterAt(counters, counterKey)
                  = CounterAtStart(counterKey) + 2

(***************************************************************************)
(* C24: of the calls of getNextInvoiceNumber made one after the other for  *)
(* one property, no two that returned have returned the same invoice       *)
(* number, whether the number came from the counters file or from the      *)
(* clock (production, or a counters file that cannot be written).          *)
(***************************************************************************)
C24_UniqueNumbers ==
    \A i, j \in 1..Len(issued) :
       (/\ i < j
        /\ issued[i].propertyId = issued[j].propertyId
        /\ ~issued[i].thrown /\ ~issued[j].thrown)
       => issued[i].number # issued[j].number

\* the counter printed at the end of an invoice number
CounterOf(number) ==
    LET parts == Split(number, "-") IN DigitsValue(parts[Len(parts)])

AmountCell(rawRow) ==
    IF parser = "airbnbCSV" THEN rawRow.earnings
    ELSE IF parser = "bookingCSV" THEN rawRow.totalPayment
    ELSE rawRow.amount

\* the text is a negative amount: a minus sign, before or after a currency
\* symbol, then a digit
DenotesNegative(text) ==
    LET t == Trim(RemoveChars(text, {"€", "$", "£", "¥", "₹"}))
    IN Len(t) >= 2 /\ t[1] = "-" /\ t[2] \in Digits

(***************************************************************************)
(* C25: in every dialect parser, no data row whose amount cell is a        *)
(* negative amount becomes a valid row: the sign is not lost on the way to *)
(* the number, so a refund is never taken for a payment.                   *)
(***************************************************************************)
C25_SignPreserved ==
    \A i \in 1..Len(fates) :
       fates[i].outcome = "valid" => ~DenotesNegative(AmountCell(fileRows[i]))

\* the first cell of the row is the name of the first column
RepeatsHeader(rawRow) == rawRow.Type = PayoutHeader[1]

(***************************************************************************)
(* C26: parseCSV discards its first data row as a repeated header only     *)
(* when the row repeats the header; a first data row of Type "Reservation" *)
(* is processed and ends in validRows or in invalidRows.                   *)
(***************************************************************************)
C26_FirstRowKept ==
    (parser = "parseCSV" /\ Len(fates) >= 1) =>
        /\ fates[1].why = "header" => RepeatsHeader(fileRows[1])
        /\ fileRows[1].Type = TypeReservation
             => fates[1].outcome \in {"valid", "invalid"}

(***************************************************************************)
(* C27: every parse call of the generic parser and of the payout parser    *)
(* that returns has summary.valid = validRows.length, summary.invalid =    *)
(* invalidRows.length and summary.total = summary.valid + summary.invalid. *)
(***************************************************************************)
C27_SummaryConsistent ==
    (parser \in {"parseCSV", "payoutLib"} /\ ppc = "returned") =>
        /\ summary.valid = Len(validRows)
        /\ summary.invalid = Len(invalidRows)
        /\ summary.total = summary.valid + summary.invalid

(***************************************************************************)
(* C28: no two records of the merged result share an invoice number, in    *)
(* direct and in sequential mode: parseBMDList keeps one konto-200000 row  *)
(* for each belegnr and matchReservations uses each ledger entry at most   *)
(* once.                                                                   *)
(***************************************************************************)
C28_DistinctInvoiceNumbers ==
    Matched =>
        \A i, j \in 1..Len(mergedData) :
            i # j => mergedData[i].invoiceNumber # mergedData[j].invoiceNumber

\* a merged result of two records, made in sequential mode
C28_Witness ==
    /\ Matched
    /\ Len(mergedData) = 2
    /\ SelectSeq(bmdEntries, HasReservationNumber) = <<>>
    /\ mergedData[1].invoiceNumber # mergedData[2].invoiceNumber

\* two numbers of the same value
SameValue(a, b) == ~a.nan /\ ~b.nan /\ a.m * Pow10(b.e) = b.m * Pow10(a.e)

\* a text without semicolon, double quote or line break
PlainText(s) == \A i \in 1..Len(s) : s[i] \notin {";", "\"", "\n"}

\* the ledger entries parseBMDList reads from the text of the export
LedgerOfExport ==
    LET rows == BMDRows(csvOut)
    IN parseBMDList(rows[1], Tail(rows))

(***************************************************************************)
(* C29: when no guest name and no property code of the list holds a        *)
(* semicolon, a double quote or a line break, parseBMDList reads from the  *)
(* output of generateAccountingCSV, with either decimal separator, one     *)
(* ledger entry per reservation, in the order of the list: its belegnr is  *)
(* the voucher number of the reservation, its bruttoAmount the gross       *)
(* amount rounded to 2 decimals, and its reservationNumber the number of   *)
(* the reservation when that number is made of 8 digits or more.           *)
(***************************************************************************)
C29_RoundTrip ==
    (/\ epc = "returned"
     /\ \A i \in 1..Len(unified) :
           /\ PlainText(unified[i].bookerName)
           /\ PlainText(getLocationShort(unified[i].propertyName,
                                         unified[i].source)))
    => /\ Len(LedgerOfExport) = Len(unified)
       /\ \A i \in 1..Len(unified) :
             /\ LedgerOfExport[i].belegnr = IntToString(startBelegnr + i - 1)
             /\ SameValue(LedgerOfExport[i].bruttoAmount,
                          Round2(unified[i].totalPayment))
             /\ (AllDigits(unified[i].reservationNumber)
                 /\ Len(unified[i].reservationNumber) >= 8)
                  => LedgerOfExport[i].reservationNumber
                       = unified[i].reservationNumber

==============================================================================
